---- MODULE Spec2Model ----
(***************************************************************************)
(* The TFTP client of xtool (src/src/tftp/client/client_impl.rs):          *)
(* Client::get and Client::put, run against a transfer worker of the TFTP  *)
(* server and an unreliable datagram network.                              *)
(*                                                                         *)
(* File contents are tracked by position.  A chunk [off, len] stands for   *)
(* the bytes off .. off+len-1 of the source file of the transfer (the      *)
(* server file of a download, the local file of an upload); off = -1       *)
(* marks bytes that are not from the source file.  A file is the sequence  *)
(* of maximal runs of such bytes, so the source file of length L is        *)
(* <<[off |-> 0, len |-> L]>> and two files are equal exactly when their   *)
(* run sequences are.                                                      *)
(***************************************************************************)
EXTENDS Integers, Sequences, FiniteSets, TLC

VARIABLES
    op,            \* "get" or "put": the call being executed
    after_put,     \* the get downloads the name that a put of this client uploaded before
    block_size,    \* Client.block_size, the block size the client proposes
    window_size,   \* Client.window_size, the window size the client proposes
    file_len,      \* length in bytes of the source file of the transfer
    filename,      \* the remote file name of the call, as path components
    pc,            \* "init", "run", or how the call returned: "ok", "err_timeout",
                   \* "err_server" (TFTP Error), "err_parse" (deserialize failed)
    block_num,     \* block_num (u16)
    retries,       \* retries
    finished,      \* finished (put only)
    tid_set,       \* tid_set
    server_addr,   \* server_addr
    pos,           \* read position of the local file (put)
    local,         \* bytes written to the local file (get), as runs
    local_exists,  \* a file exists at the local destination path (get)
    err,           \* the code and message of the error returned, when pc = "err_server"
    rx,            \* what the last iteration of the client loop received
    out,           \* the packets the client sent in its last step, in order
    req_tx,        \* number of transmissions of the request (RRQ / WRQ) so far
    last_data,     \* the last DATA packet the client sent (put), NoPkt before the first
    last_written,  \* number of the last DATA block written to the local file (get), -1: none
    net_c,         \* datagrams in flight from the server worker to the client
    net_s,         \* datagrams in flight from the client, each with its destination
    srv_oack,      \* server policy: options are negotiated (OACK) or ignored
    srv_max_blk,   \* server policy cap on blksize
    config,        \* server: Config as loaded (read_only, clean_on_error; None: not set)
    cli_read_only, \* server: the read_only flag of the command line
    cli_args,      \* server: the other arguments of the command line (ip, port, path,
                   \* single_port)
    srv_conf,      \* server: the Config run_with_config merged and the options got from it
    srv_pc,        \* worker: "idle", "wait_ack0", "sending", "receiving", "done", "failed"
    srv_block,     \* worker: last block sent (RRQ) or last in-order block received (WRQ)
    srv_pos,       \* worker: read position in the served file (RRQ)
    srv_len,       \* server: length of the file of the requested name
    srv_blk,       \* worker: negotiated block size
    srv_win,       \* worker: negotiated window size
    srv_cnt,       \* worker: DATA frames buffered in its window (RRQ); in-order blocks
                   \* received since its last ACK (WRQ)
    srv_short,     \* worker: the last DATA sent was the final (short) block
    srv_file,      \* worker: bytes written to the received file (WRQ), as runs
    srv_exists,    \* server: a file of the requested name exists
    srv_open,      \* worker: it holds an open file handle
    srv_last,      \* worker: last packet sent (retransmitted on its timeout)
    sock_pc,       \* UdpSocket as Socket: "idle", "sent" or "received"
    sent_packet,   \* the Packet given to send
    datagram,      \* the bytes of the datagram on the wire
    recv_size,     \* the size given to recv_with_size by the receiver
    recv_packet,   \* what recv_with_size returned
    udp_in,        \* single port: datagrams that wait in the shared UDP socket
    workers,       \* single port: the ServerSocket of each active transfer, by peer TID
    sock_op,       \* single port: the last call on a socket, and what it returned
    udp_mode,      \* single port: blocking mode and write timeout of the shared UDP socket
    arrived,       \* single port: number of datagrams that have arrived
    files,         \* transfer server: AppState.files, the FileRecord kept under each id
    qiniu_config,  \* transfer server: AppState.qiniu_config is Some
    clock,         \* transfer server: the last reading of the system clock, in seconds
    http           \* transfer server: the last request handled, and its response

vars == <<op, after_put, block_size, window_size, file_len, filename, config, cli_read_only,
          cli_args, srv_conf, pc, block_num, retries, finished, tid_set,
          server_addr, pos, local, local_exists, err, rx, out, req_tx, last_data, last_written,
          net_c, net_s, srv_oack, srv_max_blk, srv_pc, srv_block, srv_pos,
          srv_blk, srv_win, srv_cnt, srv_short, srv_file, srv_exists, srv_len, srv_open,
          srv_last, sock_pc, sent_packet, datagram, recv_size, recv_packet,
          udp_in, workers, sock_op, udp_mode, arrived, files, qiniu_config, clock, http>>

(* The packet codec behind a UdpSocket, exercised on its own *)
codecVars == <<sock_pc, sent_packet, datagram, recv_size, recv_packet>>

(* The call and the configuration of the server *)
callVars == <<op, after_put, block_size, window_size, file_len, filename, srv_oack, srv_max_blk,
              config, cli_read_only, cli_args, srv_conf>>

(* The shared socket of a single-port server, its dispatcher and workers *)
sockVars == <<udp_in, workers, sock_op, udp_mode, arrived>>

(* The state of the transfer server *)
appVars == <<files, qiniu_config, clock, http>>

(* What no step of a transfer changes *)
cfgVars == <<callVars, codecVars, sockVars, appVars>>
cliVars == <<pc, block_num, retries, finished, tid_set, server_addr, pos, local, local_exists,
             err>>
obsVars == <<rx, out, req_tx, last_data, last_written>>
srvVars == <<srv_pc, srv_block, srv_pos, srv_blk, srv_win, srv_cnt, srv_short, srv_file,
            srv_exists, srv_len, srv_open, srv_last>>

(* The state of a transfer *)
transferVars == <<callVars, cliVars, obsVars, net_c, net_s, srvVars, appVars>>

----------------------------------------------------------------------------
(* Program constants *)

U16 == 65536                \* block numbers are u16
max_retries == 5            \* let max_retries = 5 in get and in put
DefaultBlockSize == 512     \* block size of a transfer without blksize option
DefaultWindowSize == 1      \* window size of a client that sets none
MinBlockSize == 8           \* lower clamp of blksize
HeaderLen == 4              \* opcode and block number; the receive buffer is block_size + 4

(* Bounds of the model *)

MaxInFlight == 2            \* datagrams the network holds per direction; older ones are lost
MaxHalfBlocks == 2          \* the source file has 0 .. MaxHalfBlocks half blocks of the proposed size
MaxWindow == 2              \* a windowed upload proposes a window size of 2 .. MaxWindow

BlockSizes == {8, 512, 1024}          \* block sizes proposed by the client
DefaultMaxBlockSize == 65464   \* default cap of the server on blksize
DefaultMaxWindowSize == 64     \* default cap of the server on windowsize
(* Server caps on blksize that make a difference for a client proposing bs: *)
(* the default, and the standard block size when the client proposes more  *)
ServerCaps(bs, oack) ==
    {DefaultMaxBlockSize} \cup (IF oack /\ bs > DefaultBlockSize THEN {DefaultBlockSize} ELSE {})
FileLens(bs) == {k * (bs \div 2) : k \in 0..MaxHalfBlocks}   \* lengths of the source file

----------------------------------------------------------------------------
(* Addresses *)

server_ip == "srv"
ListenAddr == [ip |-> server_ip, port |-> 69]        \* SocketAddr::new(server_ip, server_port)
WorkerAddr == [ip |-> server_ip, port |-> 50000]     \* the worker's socket: the server's TID
ForeignAddrs == {[ip |-> server_ip, port |-> 50001], [ip |-> "other", port |-> 50001]}

----------------------------------------------------------------------------
(* Packets *)

NoPkt == [op |-> "NONE", block |-> 0, off |-> 0, len |-> 0, code |-> 0, msg |-> "",
          blksize |-> 0, tsize |-> 0, wsize |-> 0, name |-> <<>>]
Data(b, o, n) == [NoPkt EXCEPT !.op = "DATA", !.block = b, !.off = o, !.len = n]
Ack(b) == [NoPkt EXCEPT !.op = "ACK", !.block = b]
Error(c, m) == [NoPkt EXCEPT !.op = "ERROR", !.code = c, !.msg = m]
Oack(bs, ts) == [NoPkt EXCEPT !.op = "OACK", !.blksize = bs, !.tsize = ts]
Rrq(bs) == [NoPkt EXCEPT !.op = "RRQ", !.blksize = bs]
Wrq(bs, ts) == [NoPkt EXCEPT !.op = "WRQ", !.blksize = bs, !.tsize = ts]
Malformed == [NoPkt EXCEPT !.op = "MALFORMED"]

Min(a, b) == IF a < b THEN a ELSE b
Max(a, b) == IF a > b THEN a ELSE b

RECURSIVE Digits(_)
Digits(n) == IF n < 10 THEN 1 ELSE 1 + Digits(n \div 10)

(* Packet::serialize: the length in bytes of the datagram.  An option is   *)
(* name NUL value NUL; the OACK echoes blksize, timeout (one digit),       *)
(* windowsize (one digit) and, when the request carried it, tsize.         *)
WireLen(p) ==
    CASE p.op = "DATA" -> HeaderLen + p.len
      [] p.op = "ACK" -> HeaderLen
      [] p.op = "ERROR" -> HeaderLen + Len(p.msg) + 1
      [] p.op = "OACK" -> 2 + (8 + Digits(p.blksize) + 1) + 10 + 13
                            + (IF p.tsize > 0 THEN 6 + Digits(p.tsize) + 1 ELSE 0)
      [] OTHER -> HeaderLen

(* socket.recv_from(&mut buf) with buf of block_size + 4 bytes, then       *)
(* Packet::deserialize(&buf[..amt]): a datagram longer than the buffer is  *)
(* cut to the buffer.  A cut DATA is a DATA with a shorter payload; a cut  *)
(* ERROR or OACK has lost its terminating NUL: decoding fails, or yields   *)
(* the packet without the part that was cut.                               *)
Decoded(p, bs) ==
    IF WireLen(p) <= bs + HeaderLen THEN {p}
    ELSE CASE p.op = "DATA" -> {[p EXCEPT !.len = bs]}
           [] p.op = "ERROR" -> {Malformed, [p EXCEPT !.msg = ""]}
           [] p.op = "OACK" -> {Malformed, [p EXCEPT !.blksize = 0, !.tsize = 0]}
           [] OTHER -> {Malformed}

----------------------------------------------------------------------------
(* The packet codec (design section 4.1) over byte sequences, and the       *)
(* UdpSocket implementation of Socket that uses it.                         *)

MAX_REQUEST_PACKET_SIZE == 512

DefaultTimeout == 5       \* seconds

MaxArrivals == 4          \* datagrams that arrive at the single port

(* Strings are sequences of bytes *)
Octet == <<111, 99, 116, 101, 116>>

OptionNames ==
    [BlockSize    |-> <<98, 108, 107, 115, 105, 122, 101>>,
     Timeout      |-> <<116, 105, 109, 101, 111, 117, 116>>,
     WindowSize   |-> <<119, 105, 110, 100, 111, 119, 115, 105, 122, 101>>,
     TransferSize |-> <<116, 115, 105, 122, 101>>]

MalformedPacket == [op |-> "MalformedPacket"]

NoPacket == [op |-> "None"]

(* Opcode and block numbers: big-endian u16 *)
u16_be(n) == <<n \div 256, n % 256>>

from_u16_be(b, i) == b[i] * 256 + b[i + 1]

(* A number as ASCII decimal *)
RECURSIVE to_decimal(_)
to_decimal(n) ==
    IF n < 10 THEN <<48 + n>> ELSE Append(to_decimal(n \div 10), 48 + (n % 10))

IsDecimal(str) == str # <<>> /\ \A i \in 1..Len(str) : str[i] \in 48..57

RECURSIVE from_decimal(_)
from_decimal(str) ==
    IF str = <<>> THEN 0
    ELSE 10 * from_decimal(SubSeq(str, 1, Len(str) - 1)) + (str[Len(str)] - 48)

(* Options: alternating name NUL value NUL *)
RECURSIVE serialize_options(_)
serialize_options(os) ==
    IF os = <<>> THEN <<>>
    ELSE OptionNames[os[1].option] \o <<0>> \o to_decimal(os[1].value) \o <<0>>
             \o serialize_options(Tail(os))

serialize(P) ==
    CASE P.op = "RRQ" -> u16_be(1) \o P.filename \o <<0>> \o P.mode \o <<0>>
                             \o serialize_options(P.options)
      [] P.op = "WRQ" -> u16_be(2) \o P.filename \o <<0>> \o P.mode \o <<0>>
                             \o serialize_options(P.options)
      [] P.op = "DATA" -> u16_be(3) \o u16_be(P.block_num) \o P.data
      [] P.op = "ACK" -> u16_be(4) \o u16_be(P.block_num)
      [] P.op = "ERROR" -> u16_be(5) \o u16_be(P.code) \o P.msg \o <<0>>
      [] P.op = "OACK" -> u16_be(6) \o serialize_options(P.options)

(* Every string of the bytes b ends with its NUL *)
Terminated(b) == b = <<>> \/ b[Len(b)] = 0

(* The NUL-terminated strings of b, in order *)
RECURSIVE Strings(_, _)
Strings(b, cur) ==
    IF b = <<>> THEN <<>>
    ELSE IF b[1] = 0 THEN <<cur>> \o Strings(Tail(b), <<>>)
         ELSE Strings(Tail(b), Append(cur, b[1]))

OptionOf(name) ==
    CHOOSE o \in DOMAIN OptionNames : OptionNames[o] = name

(* The strings strs from the i-th on are name, value pairs of options *)
OptionsOk(strs, i) ==
    /\ (Len(strs) - i + 1) % 2 = 0
    /\ \A k \in i..Len(strs) :
          IF (k - i) % 2 = 0
          THEN \E o \in DOMAIN OptionNames : OptionNames[o] = strs[k]
          ELSE IsDecimal(strs[k])

parse_options(strs, i) ==
    [k \in 1..((Len(strs) - i + 1) \div 2) |->
        [option |-> OptionOf(strs[i + 2 * (k - 1)]),
         value  |-> from_decimal(strs[i + 2 * (k - 1) + 1])]]

deserialize(b) ==
    IF Len(b) < 2 THEN MalformedPacket
    ELSE LET opcode == from_u16_be(b, 1)
             rest == SubSeq(b, 3, Len(b))
             strs == Strings(rest, <<>>)
         IN CASE opcode \in {1, 2} ->
                   IF Terminated(rest) /\ Len(strs) >= 2 /\ OptionsOk(strs, 3)
                   THEN [op |-> IF opcode = 1 THEN "RRQ" ELSE "WRQ", filename |-> strs[1],
                         mode |-> strs[2], options |-> parse_options(strs, 3)]
                   ELSE MalformedPacket
              [] opcode = 3 ->
                   IF Len(b) >= 4
                   THEN [op |-> "DATA", block_num |-> from_u16_be(b, 3),
                         data |-> SubSeq(b, 5, Len(b))]
                   ELSE MalformedPacket
              [] opcode = 4 ->
                   IF Len(b) >= 4 THEN [op |-> "ACK", block_num |-> from_u16_be(b, 3)]
                   ELSE MalformedPacket
              [] opcode = 5 ->
                   IF Len(b) >= 5 /\ b[Len(b)] = 0
                   THEN [op |-> "ERROR", code |-> from_u16_be(b, 3),
                         msg |-> Strings(SubSeq(b, 5, Len(b)), <<>>)[1]]
                   ELSE MalformedPacket
              [] opcode = 6 ->
                   IF Terminated(rest) /\ OptionsOk(strs, 1)
                   THEN [op |-> "OACK", options |-> parse_options(strs, 1)]
                   ELSE MalformedPacket
              [] OTHER -> MalformedPacket

(* <UdpSocket as Socket>::send: the serialized packet is the datagram *)
UdpSend ==
    /\ sock_pc = "idle"
    /\ sock_pc' = "sent"
    /\ datagram' = serialize(sent_packet)
    /\ UNCHANGED <<sent_packet, recv_size, recv_packet, transferVars, sockVars>>

(* <UdpSocket as Socket>::recv_with_size: the datagram is copied into a    *)
(* buffer of size + 4 bytes, what does not fit is dropped, and the bytes   *)
(* received are deserialized.                                              *)
UdpRecvWithSize ==
    /\ sock_pc = "sent"
    /\ sock_pc' = "received"
    /\ LET amt == IF Len(datagram) < recv_size + 4 THEN Len(datagram) ELSE recv_size + 4
       IN recv_packet' = deserialize(SubSeq(datagram, 1, amt))
    /\ UNCHANGED <<sent_packet, recv_size, datagram, transferVars, sockVars>>

(* No packet is under way through the socket *)
CodecIdle ==
    /\ sock_pc = "idle"
    /\ sent_packet = NoPacket
    /\ datagram = <<>>
    /\ recv_size = MAX_REQUEST_PACKET_SIZE
    /\ recv_packet = NoPacket

----------------------------------------------------------------------------
(* ServerSocket, the Socket of a worker in single-port mode, and the       *)
(* dispatcher that feeds it (design section 4.5).                          *)

NoAddr == [ip |-> "", port |-> 0]

NoOp == [who |-> NoAddr, call |-> "", pkt |-> NoPacket, peer |-> NoAddr, err |-> "", dur |-> 0,
         waited |-> 0]

RecvCalls == {"recv", "recv_with_size", "recv_from", "recv_from_with_size"}

(* ServerSocket::new: a fresh channel, blocking.  The inbox is the channel; *)
(* sent and returned record what went into its sender and what the receive *)
(* calls returned; an entry of the inbox keeps the sender of its datagram.  *)
ServerSocketNew(remote, timeout) ==
    [remote |-> remote, inbox |-> <<>>, timeout |-> timeout, nonblocking |-> FALSE,
     sent |-> <<>>, returned |-> <<>>]

(* Sender::send on the sender of the socket of w: the packet joins the channel *)
SenderSend(w, from, p) ==
    workers' = [workers EXCEPT ![w].inbox = Append(@, [from |-> from, pkt |-> p]),
                               ![w].sent = Append(@, p)]

(* No single-port server runs *)
SockIdle ==
    /\ udp_in = <<>>
    /\ workers = <<>>
    /\ sock_op = NoOp
    /\ udp_mode = [nonblocking |-> FALSE, write_timeout |-> <<>>]
    /\ arrived = 0

(* AppState::new: no record, no object storage; no transfer server runs and no request
   has been handled *)
AppIdle ==
    /\ files = <<>>
    /\ qiniu_config = FALSE
    /\ clock = 0
    /\ http = [n |-> 0, req |-> "", id |-> 0, status |-> 0, rec |-> <<>>]

(* A receive call that reads the shared UDP socket itself *)
SockRecvRaw(w, call) ==
    /\ w \in DOMAIN workers
    /\ call \in RecvCalls
    /\ IF udp_in # <<>>
       THEN /\ udp_in' = Tail(udp_in)
            /\ workers' = [workers EXCEPT ![w].returned = Append(@, Head(udp_in).pkt)]
            /\ sock_op' = [who |-> w, call |-> call, pkt |-> Head(udp_in).pkt,
                           peer |-> Head(udp_in).from, err |-> "", dur |-> 0, waited |-> 0]
       ELSE /\ sock_op' = [who |-> w, call |-> call, pkt |-> NoPacket, peer |-> NoAddr,
                           err |-> "WouldBlock", dur |-> 0, waited |-> 0]
            /\ UNCHANGED <<udp_in, workers>>
    /\ UNCHANGED <<arrived, udp_mode, transferVars, codecVars>>

(* A receive call that returns the newest packet of the inbox *)
SockRecvNewest(w, call) ==
    /\ w \in DOMAIN workers
    /\ call \in RecvCalls
    /\ workers[w].inbox # <<>>
    /\ LET n == Len(workers[w].inbox)
       IN /\ workers' = [workers EXCEPT ![w].inbox = SubSeq(@, 1, n - 1),
                                        ![w].returned = Append(@, workers[w].inbox[n].pkt)]
          /\ sock_op' = [who |-> w, call |-> call, pkt |-> workers[w].inbox[n].pkt,
                         peer |-> workers[w].remote, err |-> "", dur |-> 0, waited |-> 0]
    /\ UNCHANGED <<udp_in, arrived, udp_mode, transferVars, codecVars>>

(* <ServerSocket as Socket>::recv_with_size, which recv, recv_from and     *)
(* recv_from_with_size end in: the size is not used; the next packet of    *)
(* the channel is returned, recv_from adds self.remote; on an empty        *)
(* channel WouldBlock when nonblocking, else an error after the timeout.   *)
SockRecvWithSize(w, call) ==
    /\ w \in DOMAIN workers
    /\ call \in RecvCalls
    /\ IF workers[w].inbox # <<>>
       THEN /\ workers' = [workers EXCEPT ![w].inbox = Tail(@),
                                          ![w].returned = Append(@, Head(workers[w].inbox).pkt)]
            /\ sock_op' = [who |-> w, call |-> call, pkt |-> Head(workers[w].inbox).pkt,
                           peer |-> workers[w].remote, err |-> "", dur |-> 0, waited |-> 0]
       ELSE /\ sock_op' = [who |-> w, call |-> call, pkt |-> NoPacket, peer |-> NoAddr,
                           err |-> IF workers[w].nonblocking THEN "WouldBlock"
                                                             ELSE "Failed to receive",
                           dur |-> 0,
                           waited |-> IF workers[w].nonblocking THEN 0
                                                                ELSE workers[w].timeout]
            /\ UNCHANGED workers
    /\ UNCHANGED <<udp_in, arrived, udp_mode, transferVars, codecVars>>

(* A send that goes to the address the last datagram came from *)
SockSendToLast(w, p) ==
    /\ w \in DOMAIN workers
    /\ sock_op' = [who |-> w, call |-> "send", pkt |-> p,
                   peer |-> IF sock_op.call = "dispatch" THEN sock_op.peer
                                                         ELSE workers[w].remote,
                   err |-> "", dur |-> 0, waited |-> 0]
    /\ UNCHANGED <<udp_in, workers, arrived, udp_mode, transferVars, codecVars>>

(* <ServerSocket as Socket>::send: send_to(packet, &self.remote) on the     *)
(* shared socket                                                           *)
SockSend(w, p) ==
    /\ w \in DOMAIN workers
    /\ sock_op' = [who |-> w, call |-> "send", pkt |-> p, peer |-> workers[w].remote,
                   err |-> "", dur |-> 0, waited |-> 0]
    /\ UNCHANGED <<udp_in, workers, arrived, udp_mode, transferVars, codecVars>>

(* A set_read_timeout that is not kept *)
SockSetForgetful(w, call, dur, nb) ==
    /\ w \in DOMAIN workers
    /\ call \in {"set_read_timeout", "set_write_timeout", "set_nonblocking"}
    /\ workers' = [workers EXCEPT
                      ![w].nonblocking = IF call = "set_nonblocking" THEN nb ELSE @]
    /\ udp_mode' = [nonblocking   |-> IF call = "set_nonblocking" THEN nb
                                                                  ELSE udp_mode.nonblocking,
                    write_timeout |-> IF call = "set_write_timeout" THEN <<dur>>
                                                                   ELSE udp_mode.write_timeout]
    /\ sock_op' = [who |-> w, call |-> call, pkt |-> NoPacket, peer |-> NoAddr, err |-> "",
                   dur |-> IF call = "set_nonblocking" THEN 0 ELSE dur, waited |-> 0]
    /\ UNCHANGED <<udp_in, arrived, transferVars, codecVars>>

(* <ServerSocket as Socket>::set_read_timeout, set_write_timeout and        *)
(* set_nonblocking.  set_read_timeout(dur): self.timeout = dur.             *)
(* set_write_timeout(dur): self.socket.set_write_timeout(Some(dur)), on the *)
(* UDP socket the ServerSocket was made from, which is the shared one.      *)
(* set_nonblocking(nb): self.nonblocking = nb and                           *)
(* self.socket.set_nonblocking(nb), again on the shared socket.             *)
SockSetOption(w, call, dur, nb) ==
    /\ w \in DOMAIN workers
    /\ call \in {"set_read_timeout", "set_write_timeout", "set_nonblocking"}
    /\ workers' = [workers EXCEPT
                      ![w].timeout = IF call = "set_read_timeout" THEN dur ELSE @,
                      ![w].nonblocking = IF call = "set_nonblocking" THEN nb ELSE @]
    /\ udp_mode' = [nonblocking   |-> IF call = "set_nonblocking" THEN nb
                                                                  ELSE udp_mode.nonblocking,
                    write_timeout |-> IF call = "set_write_timeout" THEN <<dur>>
                                                                   ELSE udp_mode.write_timeout]
    /\ sock_op' = [who |-> w, call |-> call, pkt |-> NoPacket, peer |-> NoAddr, err |-> "",
                   dur |-> IF call = "set_nonblocking" THEN 0 ELSE dur, waited |-> 0]
    /\ UNCHANGED <<udp_in, arrived, transferVars, codecVars>>

(* The dispatcher of single-port mode (design section 4.5), sole reader of *)
(* the shared socket.  A request from a TID without a transfer: a worker   *)
(* with its own ServerSocket is created and given the request.             *)
DispatchSpawn ==
    /\ udp_in # <<>>
    /\ Head(udp_in).from \notin DOMAIN workers
    /\ Head(udp_in).pkt.op \in {"RRQ", "WRQ"}
    /\ udp_in' = Tail(udp_in)
    /\ workers' = [t \in DOMAIN workers \cup {Head(udp_in).from} |->
                     IF t = Head(udp_in).from
                     THEN ServerSocketNew(t, DefaultTimeout) ELSE workers[t]]
    /\ sock_op' = [who |-> ListenAddr, call |-> "dispatch", pkt |-> Head(udp_in).pkt,
                   peer |-> Head(udp_in).from, err |-> "", dur |-> 0, waited |-> 0]
    /\ UNCHANGED <<arrived, udp_mode, transferVars, codecVars>>

(* Any other packet of a TID with a transfer goes to the inbox of its worker *)
DispatchRoute ==
    /\ udp_in # <<>>
    /\ Head(udp_in).from \in DOMAIN workers
    /\ udp_in' = Tail(udp_in)
    /\ SenderSend(Head(udp_in).from, Head(udp_in).from, Head(udp_in).pkt)
    /\ sock_op' = [who |-> ListenAddr, call |-> "dispatch", pkt |-> Head(udp_in).pkt,
                   peer |-> Head(udp_in).from, err |-> "", dur |-> 0, waited |-> 0]
    /\ UNCHANGED <<arrived, udp_mode, transferVars, codecVars>>

(* A packet that is no request, from a TID without a transfer, reaches no inbox *)
DispatchDrop ==
    /\ udp_in # <<>>
    /\ Head(udp_in).from \notin DOMAIN workers
    /\ Head(udp_in).pkt.op \notin {"RRQ", "WRQ"}
    /\ udp_in' = Tail(udp_in)
    /\ sock_op' = [who |-> ListenAddr, call |-> "dispatch", pkt |-> Head(udp_in).pkt,
                   peer |-> Head(udp_in).from, err |-> "", dur |-> 0, waited |-> 0]
    /\ UNCHANGED <<workers, arrived, udp_mode, transferVars, codecVars>>

(* The transfer of a worker ends; its TID has no transfer any more *)
WorkerExit(w) ==
    /\ w \in DOMAIN workers
    /\ workers' = [t \in DOMAIN workers \ {w} |-> workers[t]]
    /\ sock_op' = [who |-> w, call |-> "exit", pkt |-> NoPacket, peer |-> NoAddr, err |-> "",
                   dur |-> 0, waited |-> 0]
    /\ UNCHANGED <<udp_in, arrived, udp_mode, transferVars, codecVars>>

(* A datagram of a peer arrives at the well-known port *)
SockArrive(from, p) ==
    /\ arrived < MaxArrivals
    /\ arrived' = arrived + 1
    /\ udp_in' = Append(udp_in, [from |-> from, pkt |-> p])
    /\ UNCHANGED <<workers, sock_op, udp_mode, transferVars, codecVars>>

----------------------------------------------------------------------------
(* Files *)

SourceFile(L) == IF L = 0 THEN <<>> ELSE <<[off |-> 0, len |-> L]>>

(* file.read(&mut data) at position p with a buffer of bs bytes *)
ReadLen(L, p, bs) == Min(bs, Max(0, L - p))

(* file.write_all(&data): append the chunk [o, n] to the runs f *)
WriteAll(f, o, n) ==
    IF n = 0 THEN f
    ELSE IF f # <<>> /\ o >= 0 /\ f[Len(f)].off >= 0 /\ f[Len(f)].off + f[Len(f)].len = o
         THEN [f EXCEPT ![Len(f)].len = @ + n]
         ELSE Append(f, [off |-> o, len |-> n])

wrapping_add(b) == (b + 1) % U16
wrapping_sub(b) == (b + U16 - 1) % U16

(* Variant: the call gives up one timeout later *)
ExhaustedLate(r) == r > max_retries

(* if retries >= max_retries: the timeout that ends the call *)
Exhausted(r) == r >= max_retries

----------------------------------------------------------------------------
(* The network: a bounded bag of recent datagrams per direction.  A        *)
(* datagram stays in flight after it was delivered (duplication), can be   *)
(* delivered in any order (delay) or never (loss), and is lost for good    *)
(* once MaxInFlight newer ones were sent.                                  *)

RECURSIVE Without(_, _)
Without(q, m) ==
    IF q = <<>> THEN <<>>
    ELSE IF Head(q) = m THEN Without(Tail(q), m)
    ELSE <<Head(q)>> \o Without(Tail(q), m)

Trim(q) == IF Len(q) > MaxInFlight THEN SubSeq(q, Len(q) - MaxInFlight + 1, Len(q)) ELSE q

Send(q, m) == Trim(Append(Without(q, m), m))

RECURSIVE SendAll(_, _)
SendAll(q, ms) == IF ms = <<>> THEN q ELSE SendAll(Send(q, Head(ms)), Tail(ms))

InFlight(q) == {q[i] : i \in 1..Len(q)}

To(p, a) == [pkt |-> p, to |-> a]

----------------------------------------------------------------------------
(* What one iteration of the client loop received: nothing yet, a timeout, *)
(* or a datagram from src; acc: it passed the TID check; pkt: the datagram *)
(* as sent; op, block, len: the packet as decoded; wrote: its payload was  *)
(* written to the local file.                                              *)

NoRx == [kind |-> "none", src |-> ListenAddr, acc |-> FALSE, wrote |-> FALSE,
         op |-> "NONE", block |-> 0, len |-> 0, pkt |-> NoPkt]
RxTimeout == [NoRx EXCEPT !.kind = "timeout"]
RxDrop(src) == [NoRx EXCEPT !.kind = "recv", !.src = src]
RxPkt(src, p, d, w) == [kind |-> "recv", src |-> src, acc |-> TRUE, wrote |-> w,
                        op |-> d.op, block |-> d.block, len |-> d.len, pkt |-> p]

(* Datagrams other hosts and other ports of the server host may send to the client *)
ForeignPkts == {Data(block_num, -1, 1), Ack(block_num), Oack(DefaultBlockSize, 0),
                Error(5, "Unknown transfer ID")}

(* A datagram the socket can return: one in flight from the worker, or a   *)
(* foreign one.  A foreign sender that the client took for its peer sends  *)
(* nothing more.                                                           *)
Arrives(src, p) ==
    \/ src = WorkerAddr /\ p \in InFlight(net_c)
    \/ src \in ForeignAddrs /\ p \in ForeignPkts /\ ~(tid_set /\ src = server_addr)

(* Variant: no TID check *)
FromAnyone(src) == TRUE

(* Variant: the TID check compares the IP address only *)
FromPeerIpOnly(src) == src.ip = server_ip

(* The TID check at the head of both loops: before the TID is set any port *)
(* of the server's IP address is taken, afterwards only the TID itself.    *)
FromPeer(src) == IF tid_set THEN src = server_addr ELSE src.ip = server_ip

----------------------------------------------------------------------------
(* Client::get *)

(* build_options(0): blksize, timeout and windowsize are proposed *)
GetRequest == [Rrq(block_size) EXCEPT !.wsize = window_size, !.name = filename]

GetStart ==
    /\ op = "get" /\ pc = "init"
    /\ pc' = "run"
    /\ block_num' = 1
    /\ retries' = 0
    /\ local' = <<>>
    /\ local_exists' = TRUE
    /\ out' = <<To(GetRequest, server_addr)>>
    /\ net_s' = Send(net_s, To(GetRequest, server_addr))
    /\ req_tx' = req_tx + 1
    /\ rx' = NoRx
    /\ UNCHANGED <<cfgVars, finished, tid_set, server_addr, pos, err, last_data, last_written,
                   net_c, srvVars>>

GetDrop(src, p) ==
    /\ op = "get" /\ pc = "run"
    /\ Arrives(src, p)
    /\ ~FromPeer(src)
    /\ rx' = RxDrop(src)
    /\ out' = <<>>
    /\ UNCHANGED <<cfgVars, cliVars, req_tx, last_data, last_written, net_c, net_s, srvVars>>

(* Variant: a DATA that is not the expected block is acknowledged too *)
GetDataAckAlways(src, p, d) ==
    /\ op = "get" /\ pc = "run"
    /\ Arrives(src, p) /\ FromPeer(src)
    /\ d \in Decoded(p, block_size) /\ d.op = "DATA"
    /\ tid_set' = TRUE /\ server_addr' = src
    /\ out' = <<To(Ack(d.block), src)>>
    /\ net_s' = Send(net_s, To(Ack(d.block), src))
    /\ IF d.block = block_num
       THEN /\ local' = WriteAll(local, d.off, d.len)
            /\ block_num' = wrapping_add(block_num)
            /\ retries' = 0
            /\ pc' = IF d.len < block_size THEN "ok" ELSE "run"
            /\ rx' = RxPkt(src, p, d, TRUE)
            /\ last_written' = d.block
       ELSE /\ rx' = RxPkt(src, p, d, FALSE)
            /\ UNCHANGED <<local, block_num, retries, pc, last_written>>
    /\ UNCHANGED <<cfgVars, local_exists, finished, pos, err, req_tx, last_data, net_c, srvVars>>

GetData(src, p, d) ==
    /\ op = "get" /\ pc = "run"
    /\ Arrives(src, p) /\ FromPeer(src)
    /\ d \in Decoded(p, block_size) /\ d.op = "DATA"
    /\ tid_set' = TRUE /\ server_addr' = src
    /\ IF d.block = block_num
       THEN /\ local' = WriteAll(local, d.off, d.len)
            /\ out' = <<To(Ack(d.block), src)>>
            /\ net_s' = Send(net_s, To(Ack(d.block), src))
            /\ block_num' = wrapping_add(block_num)
            /\ retries' = 0
            /\ pc' = IF d.len < block_size THEN "ok" ELSE "run"
            /\ rx' = RxPkt(src, p, d, TRUE)
            /\ last_written' = d.block
       ELSE /\ out' = <<>>
            /\ rx' = RxPkt(src, p, d, FALSE)
            /\ UNCHANGED <<local, net_s, block_num, retries, pc, last_written>>
    /\ UNCHANGED <<cfgVars, local_exists, finished, pos, err, req_tx, last_data, net_c, srvVars>>

GetError(src, p, d) ==
    /\ op = "get" /\ pc = "run"
    /\ Arrives(src, p) /\ FromPeer(src)
    /\ d \in Decoded(p, block_size) /\ d.op = "ERROR"
    /\ tid_set' = TRUE /\ server_addr' = src
    /\ pc' = "err_server"
    /\ err' = [code |-> d.code, msg |-> d.msg]
    /\ out' = <<>>
    /\ rx' = RxPkt(src, p, d, FALSE)
    /\ UNCHANGED <<cfgVars, local_exists, block_num, retries, finished, pos, local, req_tx, last_data,
                   last_written, net_c, net_s, srvVars>>

GetOack(src, p, d) ==
    /\ op = "get" /\ pc = "run"
    /\ Arrives(src, p) /\ FromPeer(src)
    /\ d \in Decoded(p, block_size) /\ d.op = "OACK"
    /\ tid_set' = TRUE /\ server_addr' = src
    /\ IF block_num = 1
       THEN /\ out' = <<To(Ack(0), src)>>
            /\ net_s' = Send(net_s, To(Ack(0), src))
       ELSE /\ out' = <<>>
            /\ UNCHANGED net_s
    /\ rx' = RxPkt(src, p, d, FALSE)
    /\ UNCHANGED <<cfgVars, local_exists, pc, block_num, retries, finished, pos, local, err, req_tx,
                   last_data, last_written, net_c, srvVars>>

GetOther(src, p, d) ==
    /\ op = "get" /\ pc = "run"
    /\ Arrives(src, p) /\ FromPeer(src)
    /\ d \in Decoded(p, block_size) /\ d.op \in {"ACK", "RRQ", "WRQ"}
    /\ tid_set' = TRUE /\ server_addr' = src
    /\ out' = <<>>
    /\ rx' = RxPkt(src, p, d, FALSE)
    /\ UNCHANGED <<cfgVars, local_exists, pc, block_num, retries, finished, pos, local, err, req_tx,
                   last_data, last_written, net_c, net_s, srvVars>>

GetMalformed(src, p, d) ==
    /\ op = "get" /\ pc = "run"
    /\ Arrives(src, p) /\ FromPeer(src)
    /\ d \in Decoded(p, block_size) /\ d.op = "MALFORMED"
    /\ tid_set' = TRUE /\ server_addr' = src
    /\ pc' = "err_parse"
    /\ out' = <<>>
    /\ rx' = RxPkt(src, p, d, FALSE)
    /\ UNCHANGED <<cfgVars, local_exists, block_num, retries, finished, pos, local, err, req_tx,
                   last_data, last_written, net_c, net_s, srvVars>>

GetTimeout ==
    /\ op = "get" /\ pc = "run"
    /\ rx' = RxTimeout
    /\ IF Exhausted(retries)
       THEN /\ pc' = "err_timeout"
            /\ out' = <<>>
            /\ UNCHANGED <<retries, net_s>>
       ELSE /\ retries' = retries + 1
            /\ out' = <<To(Ack(wrapping_sub(block_num)), server_addr)>>
            /\ net_s' = Send(net_s, To(Ack(wrapping_sub(block_num)), server_addr))
            /\ UNCHANGED pc
    /\ UNCHANGED <<cfgVars, local_exists, block_num, finished, tid_set, server_addr, pos, local, err,
                   req_tx, last_data, last_written, net_c, srvVars>>

----------------------------------------------------------------------------
(* Client::put *)

(* build_options(file_size): tsize is proposed only when the file is not empty *)
PutRequest == [Wrq(block_size, file_len) EXCEPT !.wsize = window_size, !.name = filename]

PutStart ==
    /\ op = "put" /\ pc = "init"
    /\ pc' = "run"
    /\ block_num' = 0
    /\ retries' = 0
    /\ finished' = FALSE
    /\ pos' = 0
    /\ out' = <<To(PutRequest, server_addr)>>
    /\ net_s' = Send(net_s, To(PutRequest, server_addr))
    /\ req_tx' = req_tx + 1
    /\ rx' = NoRx
    /\ UNCHANGED <<cfgVars, local_exists, tid_set, server_addr, local, err, last_data, last_written,
                   net_c, srvVars>>

PutDrop(src, p) ==
    /\ op = "put" /\ pc = "run"
    /\ Arrives(src, p)
    /\ ~FromPeer(src)
    /\ rx' = RxDrop(src)
    /\ out' = <<>>
    /\ UNCHANGED <<cfgVars, cliVars, req_tx, last_data, last_written, net_c, net_s, srvVars>>

(* Variant: the block is sent under the number after b *)
SendNextBlockSkipping(b, dst) ==
    LET n == ReadLen(file_len, pos, block_size)
        data_packet == Data(wrapping_add(b), pos, n)
    IN /\ block_num' = wrapping_add(b)
       /\ pos' = pos + n
       /\ finished' = (finished \/ n < block_size)
       /\ out' = <<To(data_packet, dst)>>
       /\ net_s' = Send(net_s, To(data_packet, dst))
       /\ last_data' = data_packet
       /\ retries' = 0

(* Read the next block at the file position and send it as DATA b to dst *)
SendNextBlock(b, dst) ==
    LET n == ReadLen(file_len, pos, block_size)
        data_packet == Data(b, pos, n)
    IN /\ block_num' = b
       /\ pos' = pos + n
       /\ finished' = (finished \/ n < block_size)
       /\ out' = <<To(data_packet, dst)>>
       /\ net_s' = Send(net_s, To(data_packet, dst))
       /\ last_data' = data_packet
       /\ retries' = 0

PutAck(src, p, d) ==
    /\ op = "put" /\ pc = "run"
    /\ Arrives(src, p) /\ FromPeer(src)
    /\ d \in Decoded(p, block_size) /\ d.op = "ACK"
    /\ tid_set' = TRUE /\ server_addr' = src
    /\ rx' = RxPkt(src, p, d, FALSE)
    /\ IF d.block = block_num
       THEN IF finished
            THEN /\ pc' = "ok"
                 /\ out' = <<>>
                 /\ UNCHANGED <<block_num, pos, finished, net_s, last_data, retries>>
            ELSE /\ SendNextBlock(wrapping_add(block_num), src)
                 /\ UNCHANGED pc
       ELSE /\ out' = <<>>
            /\ UNCHANGED <<pc, block_num, pos, finished, net_s, last_data, retries>>
    /\ UNCHANGED <<cfgVars, local_exists, local, err, req_tx, last_written, net_c, srvVars>>

(* Variant: every OACK starts the data phase *)
PutOackRestart(src, p, d) ==
    /\ op = "put" /\ pc = "run"
    /\ Arrives(src, p) /\ FromPeer(src)
    /\ d \in Decoded(p, block_size) /\ d.op = "OACK"
    /\ tid_set' = TRUE /\ server_addr' = src
    /\ rx' = RxPkt(src, p, d, FALSE)
    /\ SendNextBlock(1, src)
    /\ UNCHANGED <<cfgVars, local_exists, pc, local, err, req_tx, last_written, net_c, srvVars>>

PutOack(src, p, d) ==
    /\ op = "put" /\ pc = "run"
    /\ Arrives(src, p) /\ FromPeer(src)
    /\ d \in Decoded(p, block_size) /\ d.op = "OACK"
    /\ tid_set' = TRUE /\ server_addr' = src
    /\ rx' = RxPkt(src, p, d, FALSE)
    /\ IF block_num = 0
       THEN SendNextBlock(1, src)
       ELSE /\ out' = <<>>
            /\ UNCHANGED <<block_num, pos, finished, net_s, last_data, retries>>
    /\ UNCHANGED <<cfgVars, local_exists, pc, local, err, req_tx, last_written, net_c, srvVars>>

PutError(src, p, d) ==
    /\ op = "put" /\ pc = "run"
    /\ Arrives(src, p) /\ FromPeer(src)
    /\ d \in Decoded(p, block_size) /\ d.op = "ERROR"
    /\ tid_set' = TRUE /\ server_addr' = src
    /\ pc' = "err_server"
    /\ err' = [code |-> d.code, msg |-> d.msg]
    /\ out' = <<>>
    /\ rx' = RxPkt(src, p, d, FALSE)
    /\ UNCHANGED <<cfgVars, local_exists, block_num, retries, finished, pos, local, req_tx, last_data,
                   last_written, net_c, net_s, srvVars>>

PutOther(src, p, d) ==
    /\ op = "put" /\ pc = "run"
    /\ Arrives(src, p) /\ FromPeer(src)
    /\ d \in Decoded(p, block_size) /\ d.op \in {"DATA", "RRQ", "WRQ"}
    /\ tid_set' = TRUE /\ server_addr' = src
    /\ out' = <<>>
    /\ rx' = RxPkt(src, p, d, FALSE)
    /\ UNCHANGED <<cfgVars, local_exists, pc, block_num, retries, finished, pos, local, err, req_tx,
                   last_data, last_written, net_c, net_s, srvVars>>

PutMalformed(src, p, d) ==
    /\ op = "put" /\ pc = "run"
    /\ Arrives(src, p) /\ FromPeer(src)
    /\ d \in Decoded(p, block_size) /\ d.op = "MALFORMED"
    /\ tid_set' = TRUE /\ server_addr' = src
    /\ pc' = "err_parse"
    /\ out' = <<>>
    /\ rx' = RxPkt(src, p, d, FALSE)
    /\ UNCHANGED <<cfgVars, local_exists, block_num, retries, finished, pos, local, err, req_tx,
                   last_data, last_written, net_c, net_s, srvVars>>

PutTimeout ==
    /\ op = "put" /\ pc = "run"
    /\ rx' = RxTimeout
    /\ IF Exhausted(retries)
       THEN /\ pc' = "err_timeout"
            /\ out' = <<>>
            /\ UNCHANGED <<retries, pos, net_s, req_tx, last_data>>
       ELSE /\ retries' = retries + 1
            /\ UNCHANGED pc
            /\ IF block_num = 0
               THEN /\ out' = <<To(PutRequest, server_addr)>>
                    /\ net_s' = Send(net_s, To(PutRequest, server_addr))
                    /\ req_tx' = req_tx + 1
                    /\ UNCHANGED <<pos, last_data>>
               ELSE LET offset == (block_num - 1) * block_size
                        n == ReadLen(file_len, offset, block_size)
                        data_packet == Data(block_num, offset, n)
                    IN /\ pos' = offset + n
                       /\ out' = <<To(data_packet, server_addr)>>
                       /\ net_s' = Send(net_s, To(data_packet, server_addr))
                       /\ last_data' = data_packet
                       /\ UNCHANGED req_tx
    /\ UNCHANGED <<cfgVars, local_exists, block_num, finished, tid_set, server_addr, local, err,
                   last_written, net_c, srvVars>>

----------------------------------------------------------------------------
(* client.put(file, name) returned Ok and the same client calls            *)
(* client.get(name, other): a new socket, a new request, a new worker.     *)
(* The name holds what the worker of the put has stored so far (nothing    *)
(* if it has given up and removed its partial file).                       *)
GetAfterPut ==
    /\ op = "put" /\ pc = "ok"
    /\ file_len \in FileLens(block_size)     \* the download of a short file is followed
    /\ srv_file = SourceFile(srv_len)
    /\ op' = "get" /\ after_put' = TRUE
    /\ pc' = "init"
    /\ block_num' = 0 /\ retries' = 0 /\ finished' = FALSE
    /\ tid_set' = FALSE /\ server_addr' = ListenAddr
    /\ pos' = 0 /\ local' = <<>> /\ local_exists' = FALSE
    /\ rx' = NoRx /\ out' = <<>> /\ req_tx' = 0 /\ last_data' = NoPkt
    /\ last_written' = -1
    /\ net_c' = <<>> /\ net_s' = <<>>
    /\ srv_pc' = "idle"
    /\ srv_block' = 0 /\ srv_pos' = 0 /\ srv_short' = FALSE /\ srv_last' = NoPkt
    /\ srv_blk' = DefaultBlockSize /\ srv_win' = 1 /\ srv_cnt' = 0
    /\ srv_open' = FALSE
    /\ UNCHANGED <<block_size, window_size, file_len, filename, srv_oack, srv_max_blk, config,
                   cli_read_only, cli_args, srv_conf, codecVars, sockVars, appVars, err, srv_file,
                   srv_exists, srv_len>>

----------------------------------------------------------------------------
(* The server configuration: an Option field is <<>> when not set and <<v>>  *)
(* when set to v.                                                          *)
None == <<>>

Some(v) == <<v>>

unwrap_or(o, d) == IF o = None THEN d ELSE o[1]

(* The fields of Config, none of them set: Config::default() *)
NoConfig ==
    [ip |-> None, port |-> None, directory |-> None, receive_directory |-> None,
     send_directory |-> None, single_port |-> None, read_only |-> None, overwrite |-> None,
     repeat_count |-> None, clean_on_error |-> None, max_retries |-> None, rollover |-> None]

(* if self.f.is_none() { self.f = Some(v) }, for each field f that has a value v *)
set_if_none(self, values) ==
    [f \in DOMAIN self |-> IF f \in DOMAIN values /\ self[f] = None THEN Some(values[f])
                                                                    ELSE self[f]]

(* merge_cli that keeps partial files unless told otherwise *)
merge_cli_keep(self, cli_ip, cli_port, cli_path, cli_ro, cli_single_port) ==
    set_if_none(self, [ip |-> cli_ip, port |-> cli_port, directory |-> cli_path,
                       read_only |-> cli_ro, single_port |-> cli_single_port,
                       overwrite |-> TRUE, repeat_count |-> 1, clean_on_error |-> FALSE,
                       max_retries |-> 6, rollover |-> "Enforce0"])

(* merge_cli without the command line: an unset read_only is false *)
merge_cli_defaults(self, cli_ip, cli_port, cli_path, cli_ro, cli_single_port) ==
    set_if_none(self, [ip |-> cli_ip, port |-> cli_port, directory |-> cli_path,
                       read_only |-> FALSE, single_port |-> cli_single_port,
                       overwrite |-> TRUE, repeat_count |-> 1, clean_on_error |-> TRUE,
                       max_retries |-> 6, rollover |-> "Enforce0"])

(* merge_cli that sets the fields of the command line only *)
merge_cli_only(self, cli_ip, cli_port, cli_path, cli_ro, cli_single_port) ==
    set_if_none(self, [ip |-> cli_ip, port |-> cli_port, directory |-> cli_path,
                       read_only |-> cli_ro, single_port |-> cli_single_port])

(* Config::merge_cli: a value of the command line is used only for a field *)
(* the loaded configuration leaves unset; the other fields get defaults,   *)
(* and the receive and send directories are left as they are.              *)
merge_cli(self, cli_ip, cli_port, cli_path, cli_ro, cli_single_port) ==
    set_if_none(self, [ip |-> cli_ip, port |-> cli_port, directory |-> cli_path,
                       read_only |-> cli_ro, single_port |-> cli_single_port,
                       overwrite |-> TRUE, repeat_count |-> 1, clean_on_error |-> TRUE,
                       max_retries |-> 6, rollover |-> "Enforce0"])

(* Config::get_options, the OptionsPrivate the transfer workers are given *)
get_options(self) ==
    [repeat_count   |-> unwrap_or(self.repeat_count, 1),
     clean_on_error |-> unwrap_or(self.clean_on_error, TRUE),
     max_retries    |-> unwrap_or(self.max_retries, 6),
     rollover       |-> unwrap_or(self.rollover, "Enforce0")]

(* run_with_config: the configuration the server is built from *)
ServerConfig ==
    merge_cli(config, cli_args.ip, cli_args.port, cli_args.path, cli_read_only,
              cli_args.single_port)

(* The command line of the integration tests' server; nothing merged yet *)
TestCli == [ip |-> "127.0.0.1", port |-> 6969, path |-> "root_dir", single_port |-> FALSE]

ConfIdle == cli_args = TestCli /\ srv_conf = [config |-> NoConfig, options |-> None]

ReadOnly == unwrap_or(ServerConfig.read_only, FALSE)

CleanOnError == get_options(ServerConfig).clean_on_error

(* Paths are sequences of components.  The served directory is /srv; in it *)
(* "link" is a symbolic link to /etc, a directory outside of it.           *)
Root == <<"srv">>

LinkTarget == <<"etc">>

(* The name of a request joined to the root; an absolute name replaces it *)
Join(root, name) ==
    IF name # <<>> /\ name[1] = "/" THEN Tail(name) ELSE root \o name

(* The canonical form of a path: ".." removes a component, a symbolic link *)
(* is replaced by its target.                                              *)
RECURSIVE Canonical(_, _)
Canonical(done, rest) ==
    IF rest = <<>> THEN done
    ELSE IF rest[1] = ".."
         THEN Canonical(IF done = <<>> THEN <<>> ELSE SubSeq(done, 1, Len(done) - 1),
                        Tail(rest))
         ELSE IF done = Root /\ rest[1] = "link"
              THEN Canonical(LinkTarget, Tail(rest))
              ELSE Canonical(Append(done, rest[1]), Tail(rest))

Canonicalize(p) == Canonical(<<>>, p)

Descendant(p, r) == Len(p) > Len(r) /\ SubSeq(p, 1, Len(r)) = r

(* Path containment: the canonical path of the request lies below the root *)
Contained(name) == Descendant(Canonicalize(Join(Root, name)), Canonicalize(Root))

(* A containment test on the joined path as written, links and ".." left in *)
AllowedLexical(req) ==
    /\ Descendant(Join(Root, req.name), Root)
    /\ ~(req.op = "WRQ" /\ ReadOnly)

(* The request may be served: its path is contained in the root, and it is *)
(* no write request to a read-only server.                                 *)
Allowed(req) ==
    /\ Contained(req.name)
    /\ ~(req.op = "WRQ" /\ ReadOnly)

(* The transfer worker of the server (design sections 4.2 and 4.4), one    *)
(* per transfer, with rollover to zero.                                    *)

(* Option negotiation: blksize clamped to [8, min(client value, cap)];     *)
(* a server that ignores options uses 512 and sends no OACK.               *)
Negotiate(req) ==
    IF srv_oack THEN Max(MinBlockSize, Min(req.blksize, srv_max_blk)) ELSE DefaultBlockSize

(* windowsize clamped to [1, min(client value, cap)]; absent or ignored: 1 *)
NegotiateWindow(req) ==
    IF srv_oack /\ req.wsize > 0 THEN Max(1, Min(req.wsize, DefaultMaxWindowSize)) ELSE 1

(* The OACK: the proposed options with the values the server chose *)
OackFor(req, ts) == [Oack(Negotiate(req), ts) EXCEPT !.wsize = NegotiateWindow(req)]

Reply(p) == /\ net_c' = Send(net_c, p)
            /\ srv_last' = p

(* RRQ SENDING step 1-2: read the next block of the served file and send it *)
SrvSendBlock(b, at, blk) ==
    LET n == ReadLen(srv_len, at, blk)
    IN /\ srv_block' = b
       /\ srv_pos' = at + n
       /\ srv_short' = (n < blk)
       /\ Reply(Data(b, at, n))

(* The bytes of the last k frames of the window: full blocks, but for a     *)
(* final short one                                                          *)
Buffered(k) ==
    IF k = 0 THEN 0
    ELSE (k - 1) * srv_blk + (IF srv_short THEN srv_len % srv_blk ELSE srv_blk)

(* The window after block b has been acknowledged: the frames from file     *)
(* position at on, up to window_size of them, the last one short at the end *)
(* of the file (empty when the length is a multiple of the block size)      *)
Window(b, at) ==
    [i \in 1..Min(srv_win, ((srv_len - at) \div srv_blk) + 1) |->
        Data((b + i) % U16, at + (i - 1) * srv_blk,
             ReadLen(srv_len, at + (i - 1) * srv_blk, srv_blk))]

SrvRequest(m) ==
    /\ srv_pc = "idle"
    /\ m \in InFlight(net_s) /\ m.to = ListenAddr
    /\ Allowed(m.pkt)
    /\ srv_open' = TRUE
    /\ \/ /\ m.pkt.op = "RRQ" /\ srv_exists /\ srv_oack
          /\ srv_pc' = "wait_ack0"
          /\ srv_blk' = Negotiate(m.pkt)
          /\ srv_win' = NegotiateWindow(m.pkt) /\ srv_cnt' = 0
          /\ srv_block' = 0 /\ srv_pos' = 0 /\ srv_short' = FALSE
          /\ Reply(OackFor(m.pkt, 0))
          /\ UNCHANGED <<srv_file, srv_exists, srv_len>>
       \/ /\ m.pkt.op = "RRQ" /\ srv_exists /\ ~srv_oack
          /\ srv_pc' = "sending"
          /\ srv_blk' = Negotiate(m.pkt)
          /\ srv_win' = NegotiateWindow(m.pkt) /\ srv_cnt' = 1
          /\ SrvSendBlock(1, 0, Negotiate(m.pkt))
          /\ UNCHANGED <<srv_file, srv_exists, srv_len>>
       \/ /\ m.pkt.op = "WRQ"
          /\ srv_pc' = "receiving"
          /\ srv_blk' = Negotiate(m.pkt)
          /\ srv_win' = NegotiateWindow(m.pkt) /\ srv_cnt' = 0
          /\ srv_block' = 0
          /\ srv_exists' = TRUE /\ srv_file' = <<>> /\ srv_len' = 0
          /\ Reply(IF srv_oack THEN OackFor(m.pkt, m.pkt.tsize) ELSE Ack(0))
          /\ UNCHANGED <<srv_pos, srv_short>>
    /\ UNCHANGED <<cfgVars, cliVars, obsVars, net_s>>

(* The request cannot be served: access violation (a path outside the root, *)
(* a WRQ to a read-only server), file not found (RRQ).  One ERROR, no file  *)
(* is opened or touched.                                                    *)
SrvReject(m) ==
    /\ srv_pc = "idle"
    /\ m \in InFlight(net_s) /\ m.to = ListenAddr
    /\ m.pkt.op \in {"RRQ", "WRQ"}
    /\ \/ ~Allowed(m.pkt)
       \/ m.pkt.op = "RRQ" /\ ~srv_exists
    /\ srv_pc' = "failed"
    /\ Reply(IF ~Allowed(m.pkt) THEN Error(2, "Access violation")
                                ELSE Error(1, "File not found"))
    /\ UNCHANGED <<cfgVars, cliVars, obsVars, net_s, srv_block, srv_pos, srv_blk, srv_win,
                   srv_cnt, srv_short, srv_file, srv_exists, srv_len, srv_open>>

(* RRQ SENDING steps 1, 2, 4, 5, 7: an ACK inside the window advances it,  *)
(* the window is filled and all its frames are transmitted                 *)
SrvAck(m) ==
    /\ srv_pc \in {"wait_ack0", "sending"}
    /\ m \in InFlight(net_s) /\ m.to = WorkerAddr
    /\ m.pkt.op = "ACK"
    /\ LET left == (srv_block + U16 - m.pkt.block) % U16
           frames == Window(m.pkt.block, srv_pos - Buffered(left))
           last == frames[Len(frames)]
       IN /\ IF srv_pc = "wait_ack0" THEN left = 0 ELSE left < srv_cnt
          /\ IF srv_pc = "sending" /\ srv_short /\ left = 0
             THEN /\ srv_pc' = "done"
                  /\ srv_open' = FALSE
                  /\ UNCHANGED <<srv_block, srv_pos, srv_short, srv_cnt, net_c, srv_last>>
             ELSE /\ srv_pc' = "sending"
                  /\ srv_block' = last.block
                  /\ srv_pos' = last.off + last.len
                  /\ srv_short' = (last.len < srv_blk)
                  /\ srv_cnt' = Len(frames)
                  /\ net_c' = SendAll(net_c, frames)
                  /\ srv_last' = last
                  /\ UNCHANGED srv_open
    /\ UNCHANGED <<cfgVars, cliVars, obsVars, net_s, srv_blk, srv_win, srv_file, srv_exists,
                   srv_len>>

(* The file handle is closed; the partial file of a failed WRQ is removed  *)
(* when clean_on_error is set.                                             *)
SrvCleanup ==
    /\ srv_open' = FALSE
    /\ IF srv_pc = "receiving" /\ CleanOnError
       THEN srv_exists' = FALSE /\ srv_file' = <<>> /\ srv_len' = 0
       ELSE UNCHANGED <<srv_exists, srv_file, srv_len>>

(* WRQ RECEIVING steps 2, 3, 4; a DATA longer than the negotiated block size  *)
(* is a framing error: ERROR 4 and teardown.                               *)
SrvData(m) ==
    /\ srv_pc = "receiving"
    /\ m \in InFlight(net_s) /\ m.to = WorkerAddr
    /\ m.pkt.op = "DATA"
    /\ IF m.pkt.len > srv_blk
       THEN /\ srv_pc' = "failed"
            /\ SrvCleanup
            /\ Reply(Error(4, "Illegal TFTP operation"))
            /\ UNCHANGED <<srv_block, srv_cnt>>
       ELSE IF m.pkt.block = wrapping_add(srv_block)
            THEN /\ srv_file' = WriteAll(srv_file, m.pkt.off, m.pkt.len)
                 /\ srv_len' = srv_len + m.pkt.len
                 /\ srv_block' = m.pkt.block
                 /\ srv_pc' = IF m.pkt.len < srv_blk THEN "done" ELSE "receiving"
                 /\ srv_open' = ~(m.pkt.len < srv_blk)
                 /\ IF m.pkt.len < srv_blk \/ srv_cnt + 1 >= srv_win
                    THEN /\ Reply(Ack(m.pkt.block))
                         /\ srv_cnt' = 0
                    ELSE /\ srv_cnt' = srv_cnt + 1
                         /\ UNCHANGED <<net_c, srv_last>>
                 /\ UNCHANGED srv_exists
            ELSE /\ Reply(Ack(srv_block))
                 /\ srv_cnt' = 0
                 /\ UNCHANGED <<srv_pc, srv_block, srv_file, srv_exists, srv_len, srv_open>>
    /\ UNCHANGED <<cfgVars, cliVars, obsVars, net_s, srv_pos, srv_blk, srv_win, srv_short>>

(* RRQ step 6, WRQ step 5: on timeout the whole window (RRQ SENDING) or    *)
(* the last packet is sent again                                           *)
SrvRetransmit ==
    /\ srv_pc \in {"wait_ack0", "sending", "receiving"}
    /\ net_c' = IF srv_pc = "sending"
                THEN SendAll(net_c, Window((srv_block + U16 - srv_cnt) % U16,
                                           srv_pos - Buffered(srv_cnt)))
                ELSE Send(net_c, srv_last)
    /\ UNCHANGED <<cfgVars, cliVars, obsVars, net_s, srvVars>>

(* Retry budget exhausted: ERROR 0 "Timeout" and teardown *)
SrvGiveUp ==
    /\ srv_pc \in {"wait_ack0", "sending", "receiving"}
    /\ srv_pc' = "failed"
    /\ SrvCleanup
    /\ Reply(Error(0, "Timeout"))
    /\ UNCHANGED <<cfgVars, cliVars, obsVars, net_s, srv_block, srv_pos, srv_blk, srv_win,
                   srv_cnt, srv_short>>

----------------------------------------------------------------------------

(* A call of one of ops for a remote file of names, on a client that       *)
(* proposes a block size of sizes and a window size of wins                *)
Call(ops, sizes, wins, names) ==
    /\ op \in ops
    /\ after_put = FALSE
    /\ block_size \in sizes
    /\ window_size \in wins
    /\ file_len \in FileLens(block_size)
    /\ filename \in names

(* The client has not started, the server has not seen the request *)
Idle ==
    /\ pc = "init"
    /\ block_num = 0
    /\ retries = 0
    /\ finished = FALSE
    /\ tid_set = FALSE
    /\ server_addr = ListenAddr
    /\ pos = 0
    /\ local = <<>>
    /\ local_exists = FALSE
    /\ err = [code |-> 0, msg |-> ""]
    /\ rx = NoRx
    /\ out = <<>>
    /\ req_tx = 0
    /\ last_data = NoPkt
    /\ last_written = -1
    /\ net_c = <<>>
    /\ net_s = <<>>
    /\ srv_pc = "idle"
    /\ srv_block = 0
    /\ srv_pos = 0
    /\ srv_blk = DefaultBlockSize
    /\ srv_win = 1
    /\ srv_cnt = 0
    /\ srv_short = FALSE
    /\ srv_open = FALSE
    /\ srv_last = NoPkt

(* The file a plain name resolves to *)
PlainName == <<"f">>

(* A call against a server without a configuration file, which serves the  *)
(* source file of a get and has no file yet under the name of a put         *)
Start(ops, wins) ==
    /\ Call(ops, BlockSizes, wins, {PlainName})
    /\ srv_oack \in BOOLEAN
    /\ srv_max_blk \in ServerCaps(block_size, srv_oack)
    /\ config = NoConfig
    /\ cli_read_only \in (IF op = "put" THEN BOOLEAN ELSE {FALSE})
    /\ ConfIdle
    /\ Idle
    /\ CodecIdle
    /\ SockIdle
    /\ AppIdle
    /\ srv_file = <<>>
    /\ srv_exists \in (IF op = "get" THEN BOOLEAN ELSE {FALSE})
    /\ srv_len = (IF op = "get" THEN file_len ELSE 0)

(* config.window_size.unwrap_or(1): stop-and-wait *)
Fresh == Start({"get", "put"}, {DefaultWindowSize})

(* The k-th full block of a transfer with block size bs *)
Block(k, bs) == Data(k % U16, (k - 1) * bs, bs)

(* A put of a file of L bytes with block size bs after k rounds in which    *)
(* no packet was lost (k > MaxInFlight, k * bs < L): the client has just    *)
(* sent DATA k, the worker has written and acknowledged the blocks before.  *)
PutAfter(k, bs, L) ==
    /\ op = "put" /\ after_put = FALSE
    /\ block_size = bs /\ window_size = 1 /\ file_len = L /\ filename = PlainName
    /\ srv_oack = TRUE /\ srv_max_blk = DefaultMaxBlockSize
    /\ config = NoConfig /\ cli_read_only = FALSE
    /\ ConfIdle
    /\ CodecIdle
    /\ SockIdle
    /\ AppIdle
    /\ pc = "run"
    /\ block_num = k % U16
    /\ retries = 0
    /\ finished = FALSE
    /\ tid_set = TRUE
    /\ server_addr = WorkerAddr
    /\ pos = k * bs
    /\ local = <<>>
    /\ local_exists = FALSE
    /\ err = [code |-> 0, msg |-> ""]
    /\ rx = RxPkt(WorkerAddr, Ack((k - 1) % U16), Ack((k - 1) % U16), FALSE)
    /\ out = <<To(Block(k, bs), WorkerAddr)>>
    /\ req_tx = 1
    /\ last_data = Block(k, bs)
    /\ last_written = -1
    /\ net_c = [i \in 1..MaxInFlight |-> Ack((k - 1 - MaxInFlight + i) % U16)]
    /\ net_s = [i \in 1..MaxInFlight |-> To(Block(k - MaxInFlight + i, bs), WorkerAddr)]
    /\ srv_pc = "receiving"
    /\ srv_block = (k - 1) % U16
    /\ srv_pos = 0
    /\ srv_blk = bs
    /\ srv_win = 1
    /\ srv_cnt = 0
    /\ srv_short = FALSE
    /\ srv_file = SourceFile((k - 1) * bs)
    /\ srv_exists = TRUE
    /\ srv_len = (k - 1) * bs
    /\ srv_open = TRUE
    /\ srv_last = Ack((k - 1) % U16)

(* A get of a file of L bytes with block size bs after k rounds in which    *)
(* no packet was lost: the client has just written and acknowledged DATA k. *)
GetAfter(k, bs, L) ==
    /\ op = "get" /\ after_put = FALSE
    /\ block_size = bs /\ window_size = 1 /\ file_len = L /\ filename = PlainName
    /\ srv_oack = TRUE /\ srv_max_blk = DefaultMaxBlockSize
    /\ config = NoConfig /\ cli_read_only = FALSE
    /\ ConfIdle
    /\ CodecIdle
    /\ SockIdle
    /\ AppIdle
    /\ pc = "run"
    /\ block_num = (k + 1) % U16
    /\ retries = 0
    /\ finished = FALSE
    /\ tid_set = TRUE
    /\ server_addr = WorkerAddr
    /\ pos = 0
    /\ local = SourceFile(k * bs)
    /\ local_exists = TRUE
    /\ err = [code |-> 0, msg |-> ""]
    /\ rx = RxPkt(WorkerAddr, Block(k, bs), Block(k, bs), TRUE)
    /\ out = <<To(Ack(k % U16), WorkerAddr)>>
    /\ req_tx = 1
    /\ last_data = NoPkt
    /\ last_written = k % U16
    /\ net_c = [i \in 1..MaxInFlight |-> Block(k - MaxInFlight + i, bs)]
    /\ net_s = [i \in 1..MaxInFlight |-> To(Ack((k - MaxInFlight + i) % U16), WorkerAddr)]
    /\ srv_pc = "sending"
    /\ srv_block = k % U16
    /\ srv_pos = k * bs
    /\ srv_blk = bs
    /\ srv_win = 1
    /\ srv_cnt = 1
    /\ srv_short = FALSE
    /\ srv_file = <<>>
    /\ srv_exists = TRUE
    /\ srv_len = L
    /\ srv_open = TRUE
    /\ srv_last = Block(k, bs)

(* A transfer of more than 65536 blocks, two blocks before the block       *)
(* number rolls over                                                       *)
RollBlockSize == DefaultBlockSize
RollStart == U16 - 2
RollFileLen == U16 * RollBlockSize + RollBlockSize \div 2

Init ==
    \/ Fresh
    \/ PutAfter(RollStart, RollBlockSize, RollFileLen)
    \/ GetAfter(RollStart, RollBlockSize, RollFileLen)

AllPkts == InFlight(net_c) \cup ForeignPkts
Srcs == {WorkerAddr} \cup ForeignAddrs

Next ==
    \/ GetStart
    \/ \E src \in Srcs, p \in AllPkts : GetDrop(src, p)
    \/ \E src \in Srcs, p \in AllPkts : \E d \in Decoded(p, block_size) : GetData(src, p, d)
    \/ \E src \in Srcs, p \in AllPkts : \E d \in Decoded(p, block_size) : GetError(src, p, d)
    \/ \E src \in Srcs, p \in AllPkts : \E d \in Decoded(p, block_size) : GetOack(src, p, d)
    \/ \E src \in Srcs, p \in AllPkts : \E d \in Decoded(p, block_size) : GetOther(src, p, d)
    \/ \E src \in Srcs, p \in AllPkts : \E d \in Decoded(p, block_size) : GetMalformed(src, p, d)
    \/ GetTimeout
    \/ PutStart
    \/ \E src \in Srcs, p \in AllPkts : PutDrop(src, p)
    \/ \E src \in Srcs, p \in AllPkts : \E d \in Decoded(p, block_size) : PutAck(src, p, d)
    \/ \E src \in Srcs, p \in AllPkts : \E d \in Decoded(p, block_size) : PutOack(src, p, d)
    \/ \E src \in Srcs, p \in AllPkts : \E d \in Decoded(p, block_size) : PutError(src, p, d)
    \/ \E src \in Srcs, p \in AllPkts : \E d \in Decoded(p, block_size) : PutOther(src, p, d)
    \/ \E src \in Srcs, p \in AllPkts : \E d \in Decoded(p, block_size) : PutMalformed(src, p, d)
    \/ PutTimeout
    \/ GetAfterPut
    \/ \E m \in InFlight(net_s) : SrvRequest(m)
    \/ \E m \in InFlight(net_s) : SrvReject(m)
    \/ \E m \in InFlight(net_s) : SrvAck(m)
    \/ \E m \in InFlight(net_s) : SrvData(m)
    \/ SrvRetransmit
    \/ SrvGiveUp

Spec == Init /\ [][Next]_vars

(* One iteration of the loop of get or put: recv_from returns a datagram or *)
(* times out, and the branch taken runs to the next recv_from or returns.   *)
ClientLoop ==
    \/ GetStart
    \/ PutStart
    \/ GetTimeout
    \/ PutTimeout
    \/ \E src \in Srcs, p \in AllPkts :
           \/ GetDrop(src, p)
           \/ PutDrop(src, p)
           \/ \E d \in Decoded(p, block_size) :
                  \/ GetData(src, p, d) \/ GetError(src, p, d) \/ GetOack(src, p, d)
                  \/ GetOther(src, p, d) \/ GetMalformed(src, p, d)
                  \/ PutAck(src, p, d) \/ PutOack(src, p, d) \/ PutError(src, p, d)
                  \/ PutOther(src, p, d) \/ PutMalformed(src, p, d)

(* The calling thread runs: recv_from blocks for at most the read timeout,  *)
(* so a call that has not returned goes on to its next iteration.  Nothing  *)
(* is assumed of the network, the server or other senders.                  *)
SpecLive == Spec /\ WF_vars(ClientLoop)

----------------------------------------------------------------------------
(* Packets through a UdpSocket: one packet is sent, and received by a peer *)
(* that calls recv_with_size.                                              *)

MaxData == 9        \* longest DATA payload sent, but for the full blocks

(* n bytes of a file *)
Bytes(n) == [i \in 1..n |-> i % 256]

FileNameBytes == {<<102>>, <<98, 111, 111, 116, 46, 105, 109, 103>>}

OptionLists ==
    {<<>>,
     <<[option |-> "BlockSize", value |-> 1024]>>,
     <<[option |-> "BlockSize", value |-> 8], [option |-> "Timeout", value |-> 5],
       [option |-> "WindowSize", value |-> 1]>>,
     <<[option |-> "BlockSize", value |-> 512], [option |-> "Timeout", value |-> 5],
       [option |-> "WindowSize", value |-> 1], [option |-> "TransferSize", value |-> 65536]>>}

BlockNums == {0, 1, 255, 256, U16 - 1}

ErrorMsgs == {<<>>,
              <<70, 105, 108, 101, 32, 110, 111, 116, 32, 102, 111, 117, 110, 100>>}

(* Valid packets of every variant *)
Packets ==
    [op : {"RRQ", "WRQ"}, filename : FileNameBytes, mode : {Octet}, options : OptionLists]
      \cup [op : {"DATA"}, block_num : BlockNums,
            data : {Bytes(n) : n \in (0..MaxData) \cup {DefaultBlockSize, 2 * DefaultBlockSize}}]
      \cup [op : {"ACK"}, block_num : BlockNums]
      \cup [op : {"ERROR"}, code : 0..8, msg : ErrorMsgs]
      \cup [op : {"OACK"}, options : OptionLists]

(* No transfer is under way *)
NoTransfer ==
    /\ Call({"get"}, {DefaultBlockSize}, {DefaultWindowSize}, {PlainName})
    /\ file_len = 0
    /\ srv_oack = TRUE
    /\ srv_max_blk = DefaultMaxBlockSize
    /\ config = NoConfig
    /\ cli_read_only = FALSE
    /\ ConfIdle
    /\ Idle
    /\ srv_file = <<>>
    /\ srv_exists = FALSE
    /\ srv_len = 0

(* The receiver gives the smallest block size, or uses recv() *)
InitCodec ==
    /\ NoTransfer
    /\ sock_pc = "idle"
    /\ sent_packet \in Packets
    /\ datagram = <<>>
    /\ recv_size \in {MinBlockSize, MAX_REQUEST_PACKET_SIZE}
    /\ recv_packet = NoPacket
    /\ SockIdle
    /\ AppIdle

NextCodec ==
    \/ UdpSend
    \/ UdpRecvWithSize

SpecCodec == InitCodec /\ [][NextCodec]_vars

----------------------------------------------------------------------------
(* A single-port server: peers send to the well-known port, the dispatcher *)
(* reads it, workers use their ServerSocket.                               *)

(* A duration a worker sets, other than the one its socket was made with *)
ShortTimeout == 1

PeerAddrs == {[ip |-> "cli", port |-> 40001], [ip |-> "cli", port |-> 40002]}

(* A request, and the two packets of test_recv *)
PeerPackets ==
    {[op |-> "RRQ", filename |-> <<102>>, mode |-> Octet, options |-> <<>>],
     [op |-> "ACK", block_num |-> 1],
     [op |-> "DATA", block_num |-> 15, data |-> <<1, 2, 3>>]}

InitSock ==
    /\ NoTransfer
    /\ CodecIdle
    /\ SockIdle
    /\ AppIdle

NextSock ==
    \/ \E from \in PeerAddrs, p \in PeerPackets : SockArrive(from, p)
    \/ DispatchSpawn
    \/ DispatchRoute
    \/ DispatchDrop
    \/ \E w \in PeerAddrs, call \in RecvCalls : SockRecvWithSize(w, call)
    \/ \E w \in PeerAddrs : SockSend(w, [op |-> "ACK", block_num |-> 1])
    \/ \E w \in PeerAddrs : WorkerExit(w)

SpecSock == InitSock /\ [][NextSock]_vars

(* The same server with workers that set the options of their sockets *)
NextSockOpt ==
    \/ \E from \in PeerAddrs, p \in PeerPackets :
           p.op \in {"RRQ", "ACK"} /\ SockArrive(from, p)
    \/ DispatchSpawn
    \/ DispatchRoute
    \/ DispatchDrop
    \/ \E w \in PeerAddrs : SockRecvWithSize(w, "recv")
    \/ \E w \in PeerAddrs, nb \in BOOLEAN,
          call \in {"set_read_timeout", "set_write_timeout", "set_nonblocking"} :
           SockSetOption(w, call, ShortTimeout, nb)

SpecSockOpt == InitSock /\ [][NextSockOpt]_vars

----------------------------------------------------------------------------
(* The server under every configuration and request name.                  *)

(* Names of requests: plain, with a ".." that stays inside the root, with  *)
(* a ".." that leaves it, absolute, and through the symbolic link          *)
Filenames == {PlainName, <<"d", "..", "f">>, <<"..", "f">>, <<"/", "etc", "f">>,
              <<"link", "f">>}

Options == {None, Some(TRUE), Some(FALSE)}

(* A file that is there before the transfer: one byte not of the source *)
OldFile == <<[off |-> -1, len |-> 1]>>

(* The server caps blksize at 512; the client proposes that or more *)
InitServer ==
    /\ Call({"get", "put"}, {DefaultBlockSize, 2 * DefaultBlockSize}, {DefaultWindowSize},
            Filenames)
    /\ srv_oack = TRUE
    /\ srv_max_blk = DefaultBlockSize
    /\ \E r \in Options, c \in (IF op = "put" THEN Options ELSE {None}) :
           config = [NoConfig EXCEPT !.read_only = r, !.clean_on_error = c]
    /\ cli_read_only \in BOOLEAN
    /\ ConfIdle
    /\ Idle
    /\ CodecIdle
    /\ SockIdle
    /\ AppIdle
    /\ srv_exists \in (IF op = "get" \/ Contained(filename) THEN BOOLEAN ELSE {FALSE})
    /\ srv_file = (IF op = "put" /\ srv_exists THEN OldFile ELSE <<>>)
    /\ srv_len = (IF op = "get" THEN file_len ELSE Len(srv_file))

(* The client hears from the worker only *)
NextServer ==
    \/ GetStart
    \/ \E p \in InFlight(net_c) : \E d \in Decoded(p, block_size) : GetData(WorkerAddr, p, d)
    \/ \E p \in InFlight(net_c) : \E d \in Decoded(p, block_size) : GetError(WorkerAddr, p, d)
    \/ \E p \in InFlight(net_c) : \E d \in Decoded(p, block_size) : GetOack(WorkerAddr, p, d)
    \/ GetTimeout
    \/ PutStart
    \/ \E p \in InFlight(net_c) : \E d \in Decoded(p, block_size) : PutAck(WorkerAddr, p, d)
    \/ \E p \in InFlight(net_c) : \E d \in Decoded(p, block_size) : PutOack(WorkerAddr, p, d)
    \/ \E p \in InFlight(net_c) : \E d \in Decoded(p, block_size) : PutError(WorkerAddr, p, d)
    \/ PutTimeout
    \/ \E m \in InFlight(net_s) : SrvRequest(m)
    \/ \E m \in InFlight(net_s) : SrvReject(m)
    \/ \E m \in InFlight(net_s) : SrvAck(m)
    \/ \E m \in InFlight(net_s) : SrvData(m)
    \/ SrvRetransmit
    \/ SrvGiveUp

SpecServer == InitServer /\ [][NextServer]_vars

----------------------------------------------------------------------------
(* Transfers of a client configured with_window_size(w), w > 1 *)

InitWindowed == Start({"get", "put"}, 2..MaxWindow)

NextWindowed ==
    \/ GetStart
    \/ \E src \in Srcs, p \in AllPkts : GetDrop(src, p)
    \/ \E src \in Srcs, p \in AllPkts : \E d \in Decoded(p, block_size) : GetData(src, p, d)
    \/ \E src \in Srcs, p \in AllPkts : \E d \in Decoded(p, block_size) : GetError(src, p, d)
    \/ \E src \in Srcs, p \in AllPkts : \E d \in Decoded(p, block_size) : GetOack(src, p, d)
    \/ \E src \in Srcs, p \in AllPkts : \E d \in Decoded(p, block_size) : GetOther(src, p, d)
    \/ \E src \in Srcs, p \in AllPkts : \E d \in Decoded(p, block_size) : GetMalformed(src, p, d)
    \/ GetTimeout
    \/ PutStart
    \/ \E src \in Srcs, p \in AllPkts : PutDrop(src, p)
    \/ \E src \in Srcs, p \in AllPkts : \E d \in Decoded(p, block_size) : PutAck(src, p, d)
    \/ \E src \in Srcs, p \in AllPkts : \E d \in Decoded(p, block_size) : PutOack(src, p, d)
    \/ \E src \in Srcs, p \in AllPkts : \E d \in Decoded(p, block_size) : PutError(src, p, d)
    \/ \E src \in Srcs, p \in AllPkts : \E d \in Decoded(p, block_size) : PutOther(src, p, d)
    \/ \E src \in Srcs, p \in AllPkts : \E d \in Decoded(p, block_size) : PutMalformed(src, p, d)
    \/ PutTimeout
    \/ \E m \in InFlight(net_s) : SrvRequest(m)
    \/ \E m \in InFlight(net_s) : SrvReject(m)
    \/ \E m \in InFlight(net_s) : SrvAck(m)
    \/ \E m \in InFlight(net_s) : SrvData(m)
    \/ SrvRetransmit
    \/ SrvGiveUp

SpecWindowed == InitWindowed /\ [][NextWindowed]_vars

----------------------------------------------------------------------------
(* The start of the server: run_with_config merges the command line into    *)
(* the loaded configuration, and the options of the workers are got from a  *)
(* Config.                                                                  *)

(* What a configuration file can hold: each field is absent, or has a value *)
(* other than the one the command line and the defaults would give          *)
FileConfigs ==
    [ip : {None, Some("10.0.0.1")}, port : {None, Some(69)},
     directory : {None, Some("file_dir")}, receive_directory : {None},
     send_directory : {None}, single_port : Options, read_only : Options,
     overwrite : {None, Some(FALSE)}, repeat_count : {None, Some(3)},
     clean_on_error : {None, Some(FALSE)}, max_retries : {None, Some(2)},
     rollover : {None, Some("Enforce1")}]

InitConfig ==
    /\ Call({"get"}, {DefaultBlockSize}, {DefaultWindowSize}, {PlainName})
    /\ file_len = 0
    /\ srv_oack = TRUE
    /\ srv_max_blk = DefaultMaxBlockSize
    /\ config \in FileConfigs
    /\ cli_read_only \in BOOLEAN
    /\ cli_args \in {[TestCli EXCEPT !.single_port = b] : b \in BOOLEAN}
    /\ srv_conf = [config |-> NoConfig, options |-> None]
    /\ Idle
    /\ srv_file = <<>>
    /\ srv_exists = FALSE
    /\ srv_len = 0
    /\ CodecIdle
    /\ SockIdle
    /\ AppIdle

(* run_with_config: config.unwrap_or_default().merge_cli(...) *)
RunWithConfig ==
    /\ srv_conf.config = NoConfig
    /\ srv_conf' = [srv_conf EXCEPT !.config = ServerConfig]
    /\ UNCHANGED <<op, after_put, block_size, window_size, file_len, filename, srv_oack,
                   srv_max_blk, config, cli_read_only, cli_args, codecVars, sockVars, appVars,
                   cliVars, obsVars, net_c, net_s, srvVars>>

(* get_options on the Config at hand: the loaded one, or the merged one *)
GetOptions ==
    /\ srv_conf.options = None
    /\ srv_conf' = [srv_conf EXCEPT !.options =
                        Some(get_options(IF srv_conf.config = NoConfig THEN config
                                                                       ELSE srv_conf.config))]
    /\ UNCHANGED <<op, after_put, block_size, window_size, file_len, filename, srv_oack,
                   srv_max_blk, config, cli_read_only, cli_args, codecVars, sockVars, appVars,
                   cliVars, obsVars, net_c, net_s, srvVars>>

NextConfig ==
    \/ RunWithConfig
    \/ GetOptions

SpecConfig == InitConfig /\ [][NextConfig]_vars

----------------------------------------------------------------------------
(* Properties *)

Returned == {"ok", "err_timeout", "err_server", "err_parse"}

(* A step of the client: one of its variables or observations changes *)
ClientStep == <<cliVars, obsVars>>' # <<cliVars, obsVars>>

(* C1: when a get from the server returns success, the bytes written to the *)
(* local file are exactly the bytes of the server's file, whatever the      *)
(* network lost, duplicated or delayed.                                     *)
C1_GetDownloadsFile ==
    (op = "get" /\ ~after_put /\ pc = "ok" /\ server_addr = WorkerAddr)
        => local = SourceFile(file_len)

(* C2: when a put to the server returns success, the server has received    *)
(* and acknowledged the final short block and the file it stored is byte    *)
(* for byte the local file.                                                 *)
C2_PutUploadsFile ==
    (op = "put" /\ pc = "ok" /\ server_addr = WorkerAddr)
        => (srv_pc = "done" /\ srv_exists /\ srv_file = SourceFile(file_len))

(* C3: a put of a file that returned success, followed by a get of the same *)
(* name with the same block size, yields the file: the get finds the name   *)
(* and, when it returns success, has written the bytes that were put.       *)
C3_RoundTrip ==
    (op = "get" /\ after_put /\ pc \in Returned /\ server_addr = WorkerAddr)
        => /\ pc = "ok" => local = SourceFile(file_len)
           /\ ~(pc = "err_server" /\ err.code = 1)

C6_GetAcks ==
    op = "get"
        => /\ rx.wrote => (out = <<To(Ack(rx.block), server_addr)>> /\ last_written = rx.block)
           /\ \A i \in 1..Len(out) :
                 (out[i].pkt.op = "ACK" /\ out[i].pkt.block >= 1)
                     => /\ rx.wrote \/ rx.kind = "timeout"
                        /\ out[i].pkt.block = last_written
                        /\ server_addr = WorkerAddr
                              => /\ srv_pc \in {"sending", "done", "failed"}
                                 /\ (srv_block - out[i].pkt.block) % U16 \in {0, 1}

(* block 65536 (number 0) is accepted and acknowledged *)
C6_Witness ==
    op = "get" /\ rx.wrote /\ rx.block = 0 /\ server_addr = WorkerAddr /\ out = <<To(Ack(0), WorkerAddr)>>

(* C7: once the TID is fixed, the client answers every packet from another  *)
(* address with ERROR 5 (Unknown transfer ID) sent to that address.         *)
C7_ForeignTidAnswered ==
    (pc = "run" /\ tid_set /\ rx.kind = "recv" /\ rx.src # server_addr)
        => \E i \in 1..Len(out) : /\ out[i].to = rx.src
                                  /\ out[i].pkt.op = "ERROR" /\ out[i].pkt.code = 5

C9_GetEndsOnShortBlock ==
    (op = "get" /\ server_addr = WorkerAddr /\ rx.wrote)
        => (pc = "ok" <=> rx.pkt.len < srv_blk)

(* C10: when the server answers with an ERROR, the call returns an error    *)
(* with the code and the message of that packet and sends nothing more.     *)
C10_ServerErrorReturned ==
    (rx.kind = "recv" /\ rx.acc /\ rx.src = WorkerAddr /\ rx.pkt.op = "ERROR")
        => /\ pc = "err_server"
           /\ err = [code |-> rx.pkt.code, msg |-> rx.pkt.msg]
           /\ out = <<>>

(* C11: when the server answers the RRQ with an ERROR, the get returns an   *)
(* error and no file has been created at the local destination path.       *)
C11_NoFileOnError ==
    (op = "get" /\ last_written = -1
       /\ rx.kind = "recv" /\ rx.acc /\ rx.src = WorkerAddr /\ rx.pkt.op = "ERROR")
        => (pc \in Returned \ {"ok"} /\ ~local_exists)

(* C12: a get whose RRQ the server answers with an OACK sends ACK 0 before  *)
(* it acknowledges any DATA, acknowledges each DATA it accepts with an ACK  *)
(* of the same number, and returns success right after acknowledging the    *)
(* first block shorter than the block size of the transfer.                 *)
C12_OackThenBlocks ==
    (op = "get" /\ srv_oack /\ tid_set /\ server_addr = WorkerAddr)
        => /\ (rx.acc /\ rx.op = "OACK" /\ last_written = -1)
                 => out = <<To(Ack(0), server_addr)>>
           /\ rx.wrote => out = <<To(Ack(rx.block), server_addr)>>
           /\ pc = "ok" <=> (rx.wrote /\ rx.len < srv_blk)

(* C13: in an upload with a negotiated window size w > 1 the client sends w *)
(* consecutive DATA blocks without waiting for an ACK in between: whenever  *)
(* an OACK or ACK makes it send, it sends w blocks with consecutive         *)
(* numbers, or fewer ending with the final short block.                     *)
C13_WindowedUpload ==
    (op = "put" /\ server_addr = WorkerAddr /\ srv_win > 1
       /\ rx.acc /\ rx.op \in {"OACK", "ACK"} /\ out # <<>>)
        => /\ Len(out) = srv_win \/ finished
           /\ \A i \in 1..Len(out) : out[i].pkt.op = "DATA"
           /\ \A i \in 2..Len(out) : out[i].pkt.block = (out[i - 1].pkt.block + 1) % U16

(* C14: every file the server opens resolves to a path inside the served   *)
(* directory; a request whose name resolves outside it (through "..", an   *)
(* absolute name or a symbolic link) is answered with ERROR code 2 and     *)
(* leaves the filesystem as it was.                                        *)
C14_PathContainment ==
    [][/\ srv_open' => Contained(filename)
       /\ ~Contained(filename)
            => /\ UNCHANGED <<srv_file, srv_exists, srv_len>>
               /\ srv_pc' # srv_pc
                    => (srv_pc' = "failed" /\ srv_last'.op = "ERROR" /\ srv_last'.code = 2)]_vars

C14_Witness ==
    /\ filename = <<"link", "f">>
    /\ srv_pc = "failed" /\ srv_last.code = 2
    /\ pc = "err_server" /\ err.code = 2

(* C19: a server in read-only mode answers every WRQ with ERROR 2 "Access   *)
(* violation", and creates, truncates or modifies no file.                 *)
C19_ReadOnlyRejectsWrq ==
    [][(op = "put" /\ (config.read_only = Some(TRUE)
                         \/ (config.read_only = None /\ cli_read_only)))
          => /\ UNCHANGED <<srv_file, srv_exists, srv_len>>
             /\ ~srv_open'
             /\ srv_pc' # srv_pc
                  => (srv_pc' = "failed" /\ srv_last' = Error(2, "Access violation"))]_vars

C19_Witness ==
    /\ op = "put" /\ config.read_only = None /\ cli_read_only
    /\ Contained(filename)
    /\ srv_pc = "failed" /\ srv_last = Error(2, "Access violation")
    /\ srv_exists /\ srv_file = OldFile

(* C20: when a WRQ transfer has ended (success, fatal error, retries used  *)
(* up) the file handle is closed, and after an end by an error with        *)
(* clean_on_error set, which is the default, the partial file is gone.     *)
C20_HandleClosedAndCleanup ==
    (op = "put" /\ srv_pc \in {"done", "failed"})
        => /\ ~srv_open
           /\ (srv_pc = "failed" /\ srv_last.code \in {0, 4}
                 /\ config.clean_on_error \in {None, Some(TRUE)})
                => ~srv_exists

C20_Witness ==
    /\ op = "put" /\ srv_pc = "failed" /\ srv_last.code = 4
    /\ config.clean_on_error = None
    /\ ~srv_open /\ ~srv_exists

(* C15: a valid packet of any variant that is sent through a Socket is     *)
(* received equal to the packet that was sent: deserializing the           *)
(* serialization of P yields P.                                            *)
C15_SentPacketArrives ==
    sock_pc = "received" => recv_packet = sent_packet

(* The codec alone: the round trip of every packet that fits the buffer *)
RoundTripWithinBuffer ==
    (sock_pc = "received" /\ Len(datagram) <= recv_size + 4) => recv_packet = sent_packet

(* C16: in single-port mode the receive calls of a worker on its           *)
(* ServerSocket (recv, recv_with_size, recv_from, recv_from_with_size)     *)
(* return packets of the inbox of that worker only and leave the shared    *)
(* UDP socket unread: only the dispatcher takes datagrams from it.         *)
C16_WorkersReadInboxOnly ==
    [][/\ Len(udp_in') < Len(udp_in)
            => (sock_op'.who = ListenAddr /\ sock_op'.call = "dispatch")
       /\ (sock_op'.call \in RecvCalls /\ <<sock_op, workers>>' # <<sock_op, workers>>)
            => /\ UNCHANGED udp_in
               /\ sock_op'.err = ""
                    => /\ workers[sock_op'.who].inbox # <<>>
                       /\ sock_op'.pkt = Head(workers[sock_op'.who].inbox).pkt]_vars

C16_Witness ==
    /\ sock_op.call = "recv_from" /\ sock_op.err = ""
    /\ udp_in # <<>>

(* C17: in single-port mode a request from a TID without a transfer        *)
(* creates exactly one worker, with an inbox of its own; every other       *)
(* packet reaches the inbox of the worker whose peer is the source of the  *)
(* packet and no other inbox; an inbox holds only packets of the worker's  *)
(* own peer, and a worker sends its replies to the TID of that peer.       *)
C17_RoutingByTid ==
    [][/\ (udp_in # <<>> /\ udp_in' = Tail(udp_in))
            => LET d == Head(udp_in)
               IN IF d.from \notin DOMAIN workers /\ d.pkt.op \in {"RRQ", "WRQ"}
                  THEN /\ DOMAIN workers' = DOMAIN workers \cup {d.from}
                       /\ workers'[d.from].remote = d.from
                       /\ workers'[d.from].inbox = <<>>
                       /\ \A t \in DOMAIN workers : workers'[t] = workers[t]
                  ELSE /\ DOMAIN workers' = DOMAIN workers
                       /\ \A t \in DOMAIN workers :
                             workers'[t].inbox = IF t = d.from
                                                 THEN Append(workers[t].inbox, d)
                                                 ELSE workers[t].inbox
       /\ \A t \in DOMAIN workers' :
             \A i \in 1..Len(workers'[t].inbox) : workers'[t].inbox[i].from = t
       /\ sock_op'.call \in {"send", "recv_from", "recv_from_with_size"} /\ sock_op'.err = ""
            => sock_op'.peer = sock_op'.who]_vars

C17_Witness ==
    /\ DOMAIN workers = PeerAddrs
    /\ \E t \in PeerAddrs : workers[t].inbox # <<>>
    /\ sock_op.call = "send" /\ sock_op.who \in PeerAddrs
    /\ \E t \in PeerAddrs \ {sock_op.who} : workers[t].returned # <<>>

(* C18: the packets put into the inbox of a ServerSocket through its       *)
(* sender are returned by its successive receive calls in the order in     *)
(* which they were put in, each once and unchanged.                        *)
C18_InboxFifo ==
    \A w \in DOMAIN workers :
        workers[w].returned \o [i \in 1..Len(workers[w].inbox) |-> workers[w].inbox[i].pkt]
            = workers[w].sent

C18_Witness ==
    \E w \in DOMAIN workers :
        /\ Len(workers[w].returned) >= 2
        /\ workers[w].returned[1] # workers[w].returned[2]
        /\ workers[w].returned = workers[w].sent


(* C21: after the start of the server, every setting that both the          *)
(* configuration file and the command line give (ip, port, directory,       *)
(* read_only, single_port) has the value of the command line.               *)
C21_CliOverridesConfig ==
    srv_conf.config # NoConfig =>
        /\ config.ip # None => srv_conf.config.ip = Some(cli_args.ip)
        /\ config.port # None => srv_conf.config.port = Some(cli_args.port)
        /\ config.directory # None => srv_conf.config.directory = Some(cli_args.path)
        /\ config.read_only # None => srv_conf.config.read_only = Some(cli_read_only)
        /\ config.single_port # None
               => srv_conf.config.single_port = Some(cli_args.single_port)

(* C22: merge_cli on a configuration with no field set yields the ip, port, *)
(* directory, read_only and single_port of the command line and the         *)
(* defaults overwrite = true, max_retries = 6, rollover = Enforce0,         *)
(* clean_on_error = true; after merge_cli each of these fields is set; and  *)
(* get_options gives the same defaults for the fields that are not set.     *)
C22_MergeCliDefaults ==
    /\ srv_conf.config # NoConfig =>
           \A f \in DOMAIN NoConfig \ {"receive_directory", "send_directory"} :
               srv_conf.config[f] # None
    /\ (srv_conf.config # NoConfig /\ config = NoConfig) =>
           srv_conf.config =
               [NoConfig EXCEPT !.ip = Some(cli_args.ip), !.port = Some(cli_args.port),
                                !.directory = Some(cli_args.path),
                                !.read_only = Some(cli_read_only),
                                !.single_port = Some(cli_args.single_port),
                                !.overwrite = Some(TRUE), !.repeat_count = Some(1),
                                !.clean_on_error = Some(TRUE), !.max_retries = Some(6),
                                !.rollover = Some("Enforce0")]
    /\ srv_conf.options # None =>
           LET o == srv_conf.options[1]
           IN /\ config.repeat_count = None => o.repeat_count = 1
              /\ config.clean_on_error = None => o.clean_on_error = TRUE
              /\ config.max_retries = None => o.max_retries = 6
              /\ config.rollover = None => o.rollover = "Enforce0"
              /\ \A f \in DOMAIN o : config[f] # None => Some(o[f]) = config[f]

(* An empty configuration has been merged and its options got *)
C22_Witness ==
    /\ config = NoConfig
    /\ srv_conf.config # NoConfig
    /\ srv_conf.options # None
    /\ cli_read_only

(* C23: when a put times out after it has sent a DATA, it sends that DATA   *)
(* again: the same block number k mod 2^16 and the same k-th chunk of the   *)
(* file, also after the block number has rolled over.                       *)
C23_PutResendsSameBlock ==
    [][(op = "put" /\ pc = "run" /\ last_data # NoPkt /\ rx' = RxTimeout /\ pc' = "run")
          => out' = <<To(last_data, server_addr)>>]_vars

(* C24: in a get, while no packet of the server has been received, each     *)
(* timeout that does not end the call sends the RRQ again.                  *)
C24_GetResendsRrq ==
    [][(op = "get" /\ pc = "run" /\ ~tid_set /\ rx' = RxTimeout /\ pc' = "run")
          => out' = <<To(GetRequest, server_addr)>>]_vars

(* C25: every call of get or put eventually returns, whatever the network,  *)
(* the server and other senders do.                                         *)
C25_CallTerminates == <>(pc \in Returned)

(* C26: every DATA a put sends to the server carries at most the negotiated *)
(* block size: the blksize of the server's OACK, or 512 after a plain ACK 0. *)
C26_PutDataWithinNegotiated ==
    (op = "put" /\ tid_set /\ server_addr = WorkerAddr /\ last_data # NoPkt)
        => last_data.len <= srv_blk

C28_GetReacksOutOfOrder ==
    [][(/\ ClientStep
        /\ op = "get" /\ pc = "run"
        /\ rx'.kind = "recv" /\ rx'.acc
        /\ rx'.op = "DATA" /\ rx'.block # block_num)
          => /\ out' = <<To(Ack(wrapping_sub(block_num)), server_addr')>>
             /\ UNCHANGED <<local, block_num>>]_vars

(* C29: in a download with a negotiated windowsize w > 1 the client sends   *)
(* no ACK for an intermediate block: when it accepts a full block that is   *)
(* the first one since its last ACK, it sends nothing.                      *)
C29_NoAckInsideWindow ==
    [][(/\ ClientStep
        /\ op = "get" /\ pc = "run"
        /\ srv_win > 1
        /\ server_addr' = WorkerAddr
        /\ rx'.wrote /\ rx'.len = srv_blk
        /\ net_s # <<>>
        /\ net_s[Len(net_s)].pkt = Ack(wrapping_sub(block_num)))
          => out' = <<>>]_vars

(* C30: a put of a file whose length is a multiple of the block size of the *)
(* transfer (the empty file included) returns success only after it has     *)
(* sent an empty DATA behind the last full block and received its ACK.      *)
C30_FinalEmptyBlock ==
    (op = "put" /\ pc = "ok" /\ server_addr = WorkerAddr /\ file_len % srv_blk = 0)
        => /\ last_data.op = "DATA" /\ last_data.len = 0 /\ last_data.off = file_len
           /\ rx.acc /\ rx.op = "ACK" /\ rx.block = last_data.block

(* C31: within one call the server TID is set once, by the first datagram   *)
(* received from the configured server IP address, and stays as it is;      *)
(* while it is not set a datagram from another IP address is dropped; once  *)
(* it is set, every packet the client sends is addressed to it.             *)
C31_TidSetOnce ==
    [][(pc \in {"init", "run"})
          => /\ tid_set => (tid_set' /\ server_addr' = server_addr)
             /\ (~tid_set /\ tid_set')
                   => (rx'.kind = "recv" /\ rx'.src.ip = server_ip /\ server_addr' = rx'.src)
             /\ (~tid_set /\ ClientStep /\ rx'.kind = "recv" /\ rx'.src.ip = server_ip)
                   => tid_set'
             /\ (~tid_set /\ ClientStep /\ rx'.kind = "recv" /\ rx'.src.ip # server_ip)
                   => (~rx'.acc /\ out' = <<>> /\ UNCHANGED cliVars)
             /\ (tid_set' /\ ClientStep)
                   => \A i \in 1..Len(out') : out'[i].to = server_addr']_vars

(* The TID is a port other than the well-known one, and the ACK sent again  *)
(* on a timeout went to it                                                  *)
C31_Witness ==
    /\ op = "get" /\ pc = "run"
    /\ tid_set /\ server_addr = WorkerAddr
    /\ rx.kind = "timeout" /\ out # <<>> /\ out[1].to = WorkerAddr
    /\ block_num > 1

(* C32: a receive call on a ServerSocket returns at once the oldest packet  *)
(* of its inbox, one that was enqueued, when there is one; on an empty      *)
(* inbox it returns no packet: a WouldBlock error at once in nonblocking    *)
(* mode, another error after the read timeout in blocking mode, and that    *)
(* timeout is the one the socket was made with or the last one given to     *)
(* set_read_timeout.                                                        *)
C32_RecvOnInbox ==
    [][/\ (sock_op'.call \in RecvCalls /\ <<sock_op, workers>>' # <<sock_op, workers>>)
            => LET w == sock_op'.who
               IN IF workers[w].inbox = <<>>
                  THEN /\ sock_op'.pkt = NoPacket
                       /\ workers'[w] = workers[w]
                       /\ IF workers[w].nonblocking
                          THEN sock_op'.err = "WouldBlock" /\ sock_op'.waited = 0
                          ELSE /\ sock_op'.err \notin {"", "WouldBlock"}
                               /\ sock_op'.waited = workers[w].timeout
                  ELSE /\ sock_op'.err = "" /\ sock_op'.waited = 0
                       /\ sock_op'.pkt = Head(workers[w].inbox).pkt
                       /\ \E i \in 1..Len(workers[w].sent) : workers[w].sent[i] = sock_op'.pkt
       /\ (sock_op'.call = "set_read_timeout" /\ sock_op' # sock_op)
            => workers'[sock_op'.who].timeout = sock_op'.dur
       /\ \A w \in DOMAIN workers \cap DOMAIN workers' :
             workers'[w].timeout # workers[w].timeout
                => (sock_op'.call = "set_read_timeout" /\ sock_op'.who = w)]_vars

(* A blocking receive on an empty inbox has failed after the timeout that   *)
(* the worker had set                                                       *)
C32_Witness ==
    /\ sock_op.call \in RecvCalls
    /\ sock_op.err = "Failed to receive"
    /\ sock_op.waited = ShortTimeout
    /\ workers[sock_op.who].returned # <<>>

(* C33: set_read_timeout, set_write_timeout and set_nonblocking on the      *)
(* ServerSocket of one worker leave the blocking mode and the timeouts of   *)
(* the shared UDP socket, and the sockets of the other workers, as they are. *)
C33_SettersAreLocal ==
    [][(/\ sock_op'.call \in {"set_read_timeout", "set_write_timeout", "set_nonblocking"}
        /\ sock_op' # sock_op)
          => /\ udp_mode' = udp_mode
             /\ \A t \in DOMAIN workers \ {sock_op'.who} : workers'[t] = workers[t]]_vars

-----------------------------------------------------------------------------
(* The transfer server: the HTTP handlers over AppState *)

(* 10 * 1024 * 1024 bytes *)
MAX_TEXT_SIZE == 10485760

(* 24 * 60 * 60 seconds *)
MAX_FILE_AGE == 86400

(* The period of cleanup_expired_files_task, in seconds *)
CleanupInterval == 3600

MaxTokens == 2

MaxDays == 1

MaxRequests == 4

(* generate_token: a random number of the range 100000..999999, as its decimal string;
   the string is modelled by the number it prints *)
Tokens == 100000..(100000 + MaxTokens - 1)

(* Readings of SystemTime::now, in seconds since the epoch: around each day's boundary *)
Times == {d * MAX_FILE_AGE + s : d \in 0..MaxDays, s \in 0..1}

(* u64::saturating_sub *)
saturating_sub(a, b) == IF a > b THEN a - b ELSE 0

(* HashMap::insert: the record is kept under id, in place of any record already there *)
insert(map, id, record) ==
    [i \in DOMAIN map \cup {id} |-> IF i = id THEN record ELSE map[i]]

(* HashMap::remove *)
remove(map, id) == [i \in DOMAIN map \ {id} |-> map[i]]

(* The response of a handler to request number http.n + 1 *)
Respond(req, id, status, rec) ==
    http' = [n |-> http.n + 1, req |-> req, id |-> id, status |-> status, rec |-> rec]

(* POST /upload; the body is given by its length and by whether it is valid UTF-8 *)
upload_file(upload_type, id, now, body) ==
    /\ http.n < MaxRequests
    /\ now >= clock
    /\ clock' = now
    /\ IF upload_type = "text"
       THEN IF body.len > MAX_TEXT_SIZE
            THEN Respond("upload_text", 0, 413, <<>>) /\ UNCHANGED files
            ELSE IF ~body.utf8
            THEN Respond("upload_text", 0, 400, <<>>) /\ UNCHANGED files
            ELSE /\ files' = insert(files, id, [content_type |-> "Text", storage |-> "Memory",
                                                len |-> body.len, uploaded_at |-> now])
                 /\ Respond("upload_text", id, 200, <<>>)
       ELSE /\ IF ~qiniu_config
               THEN Respond("upload_file", 0, 500, <<>>)
               ELSE \E token_ok \in BOOLEAN :
                        Respond("upload_file", 0, IF token_ok THEN 200 ELSE 500, <<>>)
            /\ UNCHANGED files
    /\ UNCHANGED <<qiniu_config, callVars, cliVars, obsVars, net_c, net_s, srvVars, codecVars,
                   sockVars>>

(* POST /upload/callback *)
complete_upload(id, now, lifecycle_ok) ==
    /\ http.n < MaxRequests
    /\ IF ~qiniu_config \/ ~lifecycle_ok
       THEN Respond("complete_upload", 0, 500, <<>>) /\ UNCHANGED <<files, clock>>
       ELSE /\ now >= clock
            /\ clock' = now
            /\ files' = insert(files, id, [content_type |-> "File", storage |-> "Qiniu",
                                           len |-> 0, uploaded_at |-> now])
            /\ Respond("complete_upload", id, 200, <<>>)
    /\ UNCHANGED <<qiniu_config, callVars, cliVars, obsVars, net_c, net_s, srvVars, codecVars,
                   sockVars>>

(* Variant: download_file without the check of the record's age *)
download_any_age(id, now) ==
    /\ http.n < MaxRequests
    /\ now >= clock
    /\ clock' = now
    /\ IF id \notin DOMAIN files
       THEN Respond("download_file", id, 404, <<>>)
       ELSE Respond("download_file", id, 200, files[id])
    /\ UNCHANGED <<files, qiniu_config, callVars, cliVars, obsVars, net_c, net_s, srvVars,
                   codecVars, sockVars>>

(* GET /download/:id *)
download_file(id, now) ==
    /\ http.n < MaxRequests
    /\ now >= clock
    /\ clock' = now
    /\ IF id \in DOMAIN files /\ saturating_sub(now, files[id].uploaded_at) > MAX_FILE_AGE
       THEN /\ files' = remove(files, id)
            /\ Respond("download_file", id, 404, files[id])
       ELSE /\ UNCHANGED files
            /\ IF id \notin DOMAIN files
               THEN Respond("download_file", id, 404, <<>>)
               ELSE IF files[id].storage = "Qiniu" /\ ~qiniu_config
               THEN Respond("download_file", id, 500, <<>>)
               ELSE Respond("download_file", id, 200, files[id])
    /\ UNCHANGED <<qiniu_config, callVars, cliVars, obsVars, net_c, net_s, srvVars, codecVars,
                   sockVars>>

(* DELETE /files/:id *)
delete_file(id) ==
    /\ http.n < MaxRequests
    /\ files' = remove(files, id)
    /\ Respond("delete_file", id, IF id \in DOMAIN files THEN 204 ELSE 404, <<>>)
    /\ UNCHANGED <<clock, qiniu_config, callVars, cliVars, obsVars, net_c, net_s, srvVars,
                   codecVars, sockVars>>

(* One tick of the hourly cleanup: it keeps the records that are not older than
   MAX_FILE_AGE *)
cleanup_expired_files_task(now) ==
    /\ now >= clock
    /\ now >= CleanupInterval
    /\ clock' = now
    /\ files' = [i \in {j \in DOMAIN files :
                           saturating_sub(now, files[j].uploaded_at) <= MAX_FILE_AGE}
                    |-> files[i]]
    /\ UNCHANGED <<http, qiniu_config, callVars, cliVars, obsVars, net_c, net_s, srvVars,
                   codecVars, sockVars>>

(* main: the state is new, and the object storage is configured when the environment
   names it *)
InitApp ==
    /\ NoTransfer
    /\ CodecIdle
    /\ SockIdle
    /\ files = <<>>
    /\ qiniu_config \in BOOLEAN
    /\ clock = 0
    /\ http = [n |-> 0, req |-> "", id |-> 0, status |-> 0, rec |-> <<>>]

NextApp ==
    \/ \E upload_type \in {"text", "file"}, id \in Tokens, now \in Times,
          body \in [len : {1, MAX_TEXT_SIZE + 1}, utf8 : BOOLEAN] :
           upload_file(upload_type, id, now, body)
    \/ \E id \in Tokens, now \in Times, lifecycle_ok \in BOOLEAN :
           complete_upload(id, now, lifecycle_ok)
    \/ \E id \in Tokens, now \in Times : download_file(id, now)
    \/ \E id \in Tokens : delete_file(id)
    \/ \E now \in Times : cleanup_expired_files_task(now)

SpecApp == InitApp /\ [][NextApp]_vars

(* A text upload or a complete_upload has just answered with success *)
Uploaded ==
    /\ http'.n = http.n + 1
    /\ http'.req \in {"upload_text", "complete_upload"}
    /\ http'.status = 200

(* C34: every successful text upload and every successful complete_upload adds a new
   record under an id that no live record is using: the id it answers with was free,
   every record kept before is still kept unchanged, and the number of records has
   grown by one *)
C34_UploadAddsRecord ==
    [][Uploaded =>
          /\ http'.id \notin DOMAIN files
          /\ http'.id \in DOMAIN files'
          /\ \A i \in DOMAIN files : i \in DOMAIN files' /\ files'[i] = files[i]
          /\ Cardinality(DOMAIN files') = Cardinality(DOMAIN files) + 1]_vars

(* A download has just been answered *)
Downloaded == http'.n = http.n + 1 /\ http'.req = "download_file"

(* C35: download_file never returns a record older than 24 hours. A download of a
   record older than MAX_FILE_AGE removes the record and answers NOT_FOUND, whether
   or not the cleanup has removed anything; a download of an id without a record
   answers NOT_FOUND; a download that succeeds returns the record kept under the id,
   which is at most MAX_FILE_AGE old. The clock never goes back and a record comes
   into files only by a successful upload, so a record that was deleted or has expired
   is not returned by a later download *)
C35_NoExpiredDownload ==
    [][/\ clock' >= clock
       /\ Downloaded =>
             LET id == http'.id IN
             IF id \notin DOMAIN files
             THEN http'.status = 404 /\ files' = files
             ELSE IF clock' - files[id].uploaded_at > MAX_FILE_AGE
             THEN /\ http'.status = 404
                  /\ id \notin DOMAIN files'
                  /\ \A i \in DOMAIN files \ {id} : i \in DOMAIN files' /\ files'[i] = files[i]
             ELSE /\ http'.status \in {200, 500}
                  /\ http'.status = 200 => http'.rec = files[id]
                  /\ files' = files
       /\ \A i \in DOMAIN files' :
             \/ i \in DOMAIN files /\ files'[i] = files[i]
             \/ Uploaded /\ http'.id = i /\ files'[i].uploaded_at = clock'
      ]_vars

(* A record older than MAX_FILE_AGE that no cleanup had removed has been asked for: the
   answer is NOT_FOUND and the record is gone *)
C35_Witness ==
    /\ http.req = "download_file"
    /\ http.status = 404
    /\ http.rec # <<>>
    /\ clock - http.rec.uploaded_at > MAX_FILE_AGE
    /\ http.id \notin DOMAIN files
====
